---- MODULE Spec2Model ----
(***************************************************************************)
(* Model of the omega-red harvesting engine.                               *)
(*                                                                         *)
(*   SpecPacer   - one invocation of fetchWithRateLimit (lib), against a   *)
(*                 transport that answers with any status and any quota    *)
(*                 headers, or rejects.                                    *)
(*   SpecThreads - one invocation of fetchAllThreads, each page request    *)
(*                 going through fetchWithRateLimit.                       *)
(*   SpecComments - one invocation of fetchAllComments, its request going  *)
(*                 through fetchWithRateLimit, and the comment tree main   *)
(*                 builds from the records it returns.                     *)
(*   SpecTree    - main's comment tree build on any sequence of records.   *)
(*   SpecSched   - main's pMap call over the threads of a subreddit.       *)
(*                                                                         *)
(* Quota header values are JavaScript floats; the model carries them as    *)
(* integers in units of 1/Scale, so that fractional values (0.5) occur.    *)
(* Delays are integers in milliseconds.                                    *)
(***************************************************************************)
EXTENDS Integers, Sequences, FiniteSets, TLC

VARIABLES
    \* ---- fetchWithRateLimit ----
    opts,       \* the tunables of the invocation, and which lib file runs
    url,        \* the request (url and options) the invocation was given
    pc,         \* position of the invocation
    attempt,    \* let attempt
    delay,      \* let delay
    response,   \* const response of the current iteration (last received)
    throttle,   \* let throttle of the current iteration
    calls,      \* history: requests handed to fetch(), in order
    statuses,   \* history: statuses of the responses received, in order
    waits,      \* history: the waits performed, in order
    result,     \* what the invocation returned
    err,        \* what the invocation threw
    \* ---- fetchAllThreads ----
    tpc,        \* position of fetchAllThreads
    count,      \* parameter count (targetCount)
    after,      \* let after
    fetched,    \* let fetched
    limit,      \* const limit of the current iteration
    threads,    \* let threads
    requests,   \* history: the page requests issued, in order
    received,   \* history: the wire entries received, in order
    pageLens,   \* history: the lengths of the pages received, in order
    served,     \* transport side: number of listing entries served so far
    \* ---- fetchAllComments, and main's comment tree of the thread ----
    cpc,        \* position of fetchAllComments / of main's tree build
    wire,       \* transport side: the reply tree the response carried
    comments,   \* const comments
    forest,     \* main: topLevelComments and the replies of each object
    \* ---- main's pMap over the threads of a subreddit ----
    spc,        \* position of the pMap call
    configured, \* config.options.maxParallelThreads
    concurrency,\* maxParallelThreads
    exportCsv,  \* exportFormat === 'csv'
    items,      \* threads, the input of pMap
    stage,      \* position of the mapper of each item
    fetchedOf,  \* what fetchAllComments returned to the mapper of each item
    nextItem,   \* pMap: the next item of the iterator
    results,    \* pMap: the result array
    posts,      \* jsonOutput[subreddit].posts
    \* ---- main: the state of a group's run ----
    totalWork,      \* let totalWork
    totalProcessed, \* let totalProcessed
    threadsProcessed,      \* let threadsProcessed
    commentsProcessed,     \* let commentsProcessed
    totalComments,         \* let totalComments
    estimatedTotalThreads, \* let estimatedTotalThreads
    threadTimes,    \* const threadTimes
    commentTimes,   \* const commentTimes
    timed,          \* history: how many durations were recorded in each list
    shown,          \* the percentage of the last status line rendered
    \* ---- main: incremental scraping ----
    useSinceDate,     \* let useSinceDate
    lastRunTimestamp, \* let lastRunTimestamp
    listed,           \* history: what fetchAllThreads returned last
    returnedReplies,  \* history: how many records fetchAllComments returned
    \* ---- exportGroupToMarkdown (lib/export) ----
    mdpc,             \* position in exportGroupToMarkdown
    mdInput,          \* its jsonOutput: the subreddits with their posts
    mdText,           \* bytes of a fixed text (header, subreddit header, note)
    maxFileSizeBytes, \* const maxFileSizeBytes
    currentMd,        \* let currentMd, as the sequence of its pieces
    partNumber,       \* let partNumber
    mdFiles,          \* the contents written, in the order of partsCreated
    mdSub,            \* index of the subreddit in iteration
    mdPost,           \* index of the post in iteration
    \* ---- main: jsonOutput, the autosave timer and the files it writes ----
    jsonOutput,       \* let jsonOutput: per subreddit of the group, its posts
    apc,              \* position of the autosave callback
    finalOutput,      \* callback: the entries Object.values(jsonOutput) gave
    pending,          \* callback: the records handed to the write awaited
    autosaveThreads,  \* the rows of the threads autosave CSV file
    autosaveComments, \* the rows of the comments autosave CSV file
    autosaveJson,     \* the posts of the autosave JSON file
    \* ---- main: the loops over the groups and their subreddits ----
    rpc,        \* position of main
    plan,       \* config.subreddits: per group, the count of each subreddit
    group,      \* the group of the current iteration (meta)
    source,     \* the subreddit of the current iteration
    visited,    \* history: the <<group, subreddit>> iterations entered
    exports,    \* history: the groups whose export step was reached
    \* ---- calculateEta (lib/helpers) ----
    etaArgs,    \* the arguments of the call, and Date.now() - startTime
    etaResult   \* what the call returned

pacerVars  == <<opts, url, pc, attempt, delay, response, throttle, calls,
                statuses, waits, result, err>>
threadVars == <<tpc, count, after, fetched, limit, threads, requests,
                received, pageLens, served>>
commentVars == <<cpc, wire, comments, forest>>
schedVars  == <<spc, configured, concurrency, exportCsv, items, stage,
                fetchedOf, nextItem, results, posts>>
workVars   == <<totalWork, totalProcessed, threadsProcessed,
                commentsProcessed, totalComments, estimatedTotalThreads,
                threadTimes, commentTimes, timed, shown>>
sinceVars  == <<useSinceDate, lastRunTimestamp, listed, returnedReplies>>
runVars    == <<rpc, plan, group, source, visited, exports>>
etaVars    == <<etaArgs, etaResult>>
tickVars   == <<apc, finalOutput, pending>>
fileVars   == <<autosaveThreads, autosaveComments, autosaveJson>>
saveVars   == <<jsonOutput, tickVars, fileVars>>
mdVars     == <<mdpc, mdInput, mdText, maxFileSizeBytes, currentMd,
                partNumber, mdFiles, mdSub, mdPost>>
mainVars   == <<schedVars, workVars, sinceVars, saveVars, runVars, etaVars,
                mdVars>>
vars       == <<pacerVars, threadVars, commentVars, mainVars>>

----------------------------------------------------------------------------
(* Bounds of the model *)

\* quota header values are multiples of 1/Scale
Scale == 2
\* maxRetries ranges over 0..MaxRetriesBound in SpecPacer
MaxRetriesBound == 3
\* a page may hold up to Overshoot entries more than the limit requested
Overshoot == 1
\* a reply tree holds at most MaxNodes nodes
MaxNodes == 3
\* a subreddit run holds at most MaxItems threads
MaxItems == 5
\* fetchAllComments returns at most MaxComments records to a mapper
MaxComments == 1
\* the tree builder is given at most MaxRecords records
MaxRecords == 5
\* at most MaxLinked of these records carry a parent_id
MaxLinked == 2
\* config.subreddits holds at most MaxGroups groups of at most
\* MaxGroupSources subreddits, each with a count of at most MaxCount
MaxGroups == 2
MaxGroupSources == 2
MaxCount == 1
\* the run that fills the windows of durations has one group of at most
\* MaxSources subreddits, each with a count of MaxBatch
MaxSources == 6
MaxBatch == 2
\* with incremental scraping, the last-run timestamp ranges over
\* 1 .. MaxStamp
MaxStamp == 2
\* exportGroupToMarkdown is called with fixed texts and posts of
\* 1 .. MaxMdBytes bytes and with a limit of 1 .. MaxMdLimit bytes
MaxMdBytes == 2
MaxMdLimit == 4
\* calculateEta is called with elapsed times up to MaxElapsed half seconds
\* and with counters up to MaxCounter
MaxElapsed == 3
MaxCounter == 4

(* Program constants *)

DefaultMaxRetries == 5
DefaultBaseDelay  == 2000
DefaultMinDelay   == 1000
DefaultHighDelay  == 3000
\* const interval = 200
interval == 200
\* Math.max(throttle, 10000)
CriticalDelay == 10000
\* remaining < 3, remaining < 10
CriticalRemaining == 3
LowRemaining == 10
\* HTTP 429 Too Many Requests
TooManyRequests == 429
\* Math.min(100, count - fetched)
PageLimit == 100
\* (config.options && config.options.maxParallelThreads) || 5
DefaultMaxParallelThreads == 5
\* if (threadTimes.length > 5) threadTimes.shift()
ThreadWindow == 5
\* if (commentTimes.length > 10) commentTimes.shift()
CommentWindow == 10

----------------------------------------------------------------------------
(* Numbers *)

Max(a, b) == IF a >= b THEN a ELSE b
Min(a, b) == IF a <= b THEN a ELSE b

\* Math.ceil(a / b) for b > 0
CeilDivFloor(a, b) == a \div b
Ceil(a, b) == -((-a) \div b)

RECURSIVE Pow2(_)
Pow2(k) == IF k <= 0 THEN 1 ELSE 2 * Pow2(k - 1)

----------------------------------------------------------------------------
(* Quota headers.  A raw header is null (absent), a numeric string, or a   *)
(* string that is no number.  parseFloat gives NaN for the first and last. *)

NaN == [nan |-> TRUE, v |-> 0]
Num(x) == [nan |-> FALSE, v |-> x]
isNaN(x) == x.nan

NullHeader == [kind |-> "null", v |-> 0]
JunkHeader == [kind |-> "junk", v |-> 0]
NumHeader(x) == [kind |-> "num", v |-> x]

\* a plausible slip: Number(null) is 0 where parseFloat(null) is NaN
ParseFloatAsNumber(h) ==
    IF h.kind = "num" THEN Num(h.v)
    ELSE IF h.kind = "null" THEN Num(0) ELSE NaN
parseFloat(h) == IF h.kind = "num" THEN Num(h.v) ELSE NaN

\* header values offered by the transport, in units of 1/Scale:
\* remaining 0, 1/Scale, 2, 3, 5, 10, 30, 50; reset -1, 1, 10, 60
RemainingHeaders ==
    {NullHeader, JunkHeader} \cup
    {NumHeader(x) : x \in {0, 1, 2 * Scale, 3 * Scale, 5 * Scale,
                           10 * Scale, 30 * Scale, 50 * Scale}}
ResetHeaders ==
    {NullHeader} \cup
    {NumHeader(x) : x \in {-1 * Scale, 1 * Scale, 10 * Scale, 60 * Scale}}

Statuses == {200, 404, TooManyRequests}

Responses ==
    [status : Statuses, remaining : RemainingHeaders, reset : ResetHeaders]

NoResponse == [status |-> 0, remaining |-> NullHeader, reset |-> NullHeader]

\* response.ok
Ok(r) == r.status >= 200 /\ r.status <= 299

----------------------------------------------------------------------------
(* fetchWithRateLimit: the pacing delay *)

\* unnamed/part_002: the quota-aware computation
QuotaThrottleFloorDiv(remaining, reset, minDelay, highDelay) ==
    IF ~isNaN(remaining) /\ ~isNaN(reset) /\ remaining.v > 0
    THEN LET t == Max(minDelay, CeilDivFloor(reset.v * 1000, remaining.v))
         IN  IF remaining.v < CriticalRemaining * Scale
             THEN Max(t, CriticalDelay)
             ELSE IF remaining.v < LowRemaining * Scale
                  THEN Max(t, highDelay)
                  ELSE t
    ELSE IF ~isNaN(remaining) /\ remaining.v < LowRemaining * Scale
         THEN highDelay
         ELSE minDelay
QuotaThrottleNoCritical(remaining, reset, minDelay, highDelay) ==
    IF ~isNaN(remaining) /\ ~isNaN(reset) /\ remaining.v > 0
    THEN LET t == Max(minDelay, Ceil(reset.v * 1000, remaining.v))
         IN  IF remaining.v < LowRemaining * Scale
             THEN Max(t, highDelay)
             ELSE t
    ELSE IF ~isNaN(remaining) /\ remaining.v < LowRemaining * Scale
         THEN highDelay
         ELSE minDelay
QuotaThrottleNoFallback(remaining, reset, minDelay, highDelay) ==
    IF ~isNaN(remaining) /\ ~isNaN(reset) /\ remaining.v > 0
    THEN LET t == Max(minDelay, Ceil(reset.v * 1000, remaining.v))
         IN  IF remaining.v < CriticalRemaining * Scale
             THEN Max(t, CriticalDelay)
             ELSE IF remaining.v < LowRemaining * Scale
                  THEN Max(t, highDelay)
                  ELSE t
    ELSE minDelay
QuotaThrottle(remaining, reset, minDelay, highDelay) ==
    IF ~isNaN(remaining) /\ ~isNaN(reset) /\ remaining.v > 0
    THEN LET t == Max(minDelay, Ceil(reset.v * 1000, remaining.v))
         IN  IF remaining.v < CriticalRemaining * Scale
             THEN Max(t, CriticalDelay)
             ELSE IF remaining.v < LowRemaining * Scale
                  THEN Max(t, highDelay)
                  ELSE t
    ELSE IF ~isNaN(remaining) /\ remaining.v < LowRemaining * Scale
         THEN highDelay
         ELSE minDelay

\* src/lib/fetchWithRateLimit.js: remaining only
SimpleThrottle(remaining, minDelay, highDelay) ==
    IF ~isNaN(remaining) /\ remaining.v < LowRemaining * Scale
    THEN highDelay
    ELSE minDelay

\* the throttle of one iteration, from the response's headers
ComputeThrottle(r, o) ==
    IF o.impl = "quota"
    THEN QuotaThrottle(parseFloat(r.remaining), parseFloat(r.reset),
                       o.minDelay, o.highDelay)
    ELSE SimpleThrottle(parseFloat(r.remaining), o.minDelay, o.highDelay)

----------------------------------------------------------------------------
(* fetchWithRateLimit: the retry loop *)

\* while (attempt <= maxRetries)
LoopCondStrict(a, maxRetries) == a < maxRetries
LoopCondLax(a, maxRetries) == a <= maxRetries + 1
LoopCond(a, maxRetries) == a <= maxRetries

\* if (response.status !== 429) ... return response
NotThrottledFirstOnly(r, a) == r.status # TooManyRequests \/ a > 0
NotThrottled(r, a) == r.status # TooManyRequests

\* await new Promise(res => setTimeout(res, throttle))
PacingWaitNone(t) == 0
PacingWait(t) == t

\* the setInterval countdown: ticks every interval ms until remainingMs,
\* starting at delay and decremented by interval per tick, is <= 0
BackoffWait(d) ==
    IF d <= 0 THEN interval ELSE Ceil(d, interval) * interval

PacerOptions ==
    [impl : {"quota", "simple"},
     maxRetries : 0 .. MaxRetriesBound,
     baseDelay : {DefaultBaseDelay, 1000},
     minDelay : {DefaultMinDelay, 200},
     highDelay : {DefaultHighDelay, 20000}]

\* after: null is the cursor of no entry
NoCursor == [t3 |-> 0]
Urls == {[path |-> "new", limit |-> PageLimit, after |-> NoCursor],
         [path |-> "comments", limit |-> 0, after |-> NoCursor]}

PacerIdle ==
    /\ pc = "idle"
    /\ attempt = 0
    /\ delay = 0
    /\ response = NoResponse
    /\ throttle = 0
    /\ calls = <<>>
    /\ statuses = <<>>
    /\ waits = <<>>
    /\ result = NoResponse
    /\ err = "none"

\* the head of the while loop with attempt = a, for request u after the
\* calls cs: fetch again, or fall out of the loop and throw
LoopHead(a, u, cs) ==
    IF LoopCond(a, opts.maxRetries)
    THEN /\ pc' = "fetching"
         /\ calls' = Append(cs, u)
         /\ err' = "none"
    ELSE /\ pc' = "failed"
         /\ calls' = cs
         /\ err' = "QuotaExhausted"

\* fetchWithRateLimit(u, options, opts): attempt = 0, delay = baseDelay, and
\* the first iteration up to await fetch
InvokeWith(u) ==
    /\ url' = u
    /\ attempt' = 0
    /\ delay' = opts.baseDelay
    /\ response' = NoResponse
    /\ throttle' = 0
    /\ statuses' = <<>>
    /\ waits' = <<>>
    /\ result' = NoResponse
    /\ LoopHead(0, u, <<>>)
    /\ UNCHANGED opts

Invoke ==
    /\ pc = "idle"
    /\ InvokeWith(url)

\* fetch resolves: the throttle is computed, then either the pacing timer or
\* the backoff countdown is started
FetchResolves(r) ==
    /\ pc = "fetching"
    /\ response' = r
    /\ statuses' = Append(statuses, r.status)
    /\ throttle' = ComputeThrottle(r, opts)
    /\ pc' = IF NotThrottled(r, attempt) THEN "pacing" ELSE "backoff"
    /\ UNCHANGED <<opts, url, attempt, delay, calls, waits, result, err>>

\* fetch rejects (network error): the exception leaves fetchWithRateLimit
FetchRejects ==
    /\ pc = "fetching"
    /\ pc' = "failed"
    /\ err' = "FetchError"
    /\ UNCHANGED <<opts, url, attempt, delay, response, throttle, calls,
                   statuses, waits, result>>

\* the pacing timer fires: return response
PacingDone ==
    /\ pc = "pacing"
    /\ waits' = Append(waits, [kind |-> "pacing", ms |-> PacingWait(throttle)])
    /\ result' = response
    /\ pc' = "returned"
    /\ UNCHANGED <<opts, url, attempt, delay, response, throttle, calls,
                   statuses, err>>

\* the backoff countdown resolves: delay *= 2, attempt++, next iteration
BackoffDone ==
    /\ pc = "backoff"
    /\ waits' = Append(waits, [kind |-> "backoff", ms |-> BackoffWait(delay)])
    /\ delay' = delay * 2
    /\ attempt' = attempt + 1
    /\ LoopHead(attempt + 1, url, calls)
    /\ UNCHANGED <<opts, url, response, throttle, statuses, result>>

----------------------------------------------------------------------------
(* fetchAllThreads *)

ThreadsIdle ==
    /\ tpc = "idle"
    /\ after = NoCursor
    /\ fetched = 0
    /\ limit = 0
    /\ threads = <<>>
    /\ requests = <<>>
    /\ received = <<>>
    /\ pageLens = <<>>
    /\ served = 0

\* the listing serves its entries in order: entry i of a page is entry
\* served + i of the listing; its name is the fullname t3_<id>.  An entry
\* may lack its data object.
WireEntry(i) == [hasData |-> TRUE, id |-> i, name |-> [t3 |-> i]]
BadEntry(i)  == [hasData |-> FALSE, id |-> i, name |-> [t3 |-> i]]
WirePage(n, bad) ==
    [i \in 1 .. n |-> IF i = bad THEN BadEntry(served + i)
                                 ELSE WireEntry(served + i)]

\* page lengths the listing may answer a request of lim entries with
PageSizes(lim) ==
    {n \in {0, 1, lim - 1, lim, lim + Overshoot} : n >= 0}

\* the bodies of an OK response: data.data.children of n entries (entry bad,
\* if any, without data), data.data without children, or a body that is no
\* listing at all (no JSON, or no data.data)
Bodies(lim) ==
    {[kind |-> "listing", n |-> n, bad |-> b] :
        n \in PageSizes(lim), b \in {0, 1, lim}}
    \cup {[kind |-> "nochildren", n |-> 0, bad |-> 0],
          [kind |-> "malformed", n |-> 0, bad |-> 0]}

\* if (fetched >= count) break
StopAtCountOffByOne(f, c) == f > c
StopAtCount(f, c) == f >= c

\* for (const child of children), entered with fetched = f: the loop ends at
\* the first child that has no data (t.selftext throws) or whose push makes
\* fetched reach count (break), else after the last child
LoopEnds(children, f) ==
    {i \in 1 .. Len(children) :
        ~children[i].hasData \/ StopAtCount(f + i, count)}
ForChildren(children, st) ==
    LET ends   == LoopEnds(children, st.fetched)
        last   == IF ends = {} THEN Len(children)
                  ELSE CHOOSE i \in ends : \A j \in ends : i <= j
        thrown == ends # {} /\ ~children[last].hasData
        pushed == IF thrown THEN last - 1 ELSE last
    IN  [threads |-> st.threads \o
                       [i \in 1 .. pushed |-> children[i].id],
         after   |-> IF pushed = 0 THEN st.after ELSE children[pushed].name,
         fetched |-> st.fetched + pushed,
         thrown  |-> thrown]

\* const limit = Math.min(100, count - fetched)
LimitAlwaysFull(f) == PageLimit
LimitFor(f) == Min(PageLimit, count - f)

\* if (children.length < limit) break
ShortPageNever(len, lim) == FALSE
ShortPage(len, lim) == len < lim

\* the head of the while loop with fetched = f and after = a: the next page
\* request through fetchWithRateLimit, or return threads
ThreadsLoopHeadNoCursor(f, a) ==
    IF f < count
    THEN LET lim == LimitFor(f)
             u   == [path |-> "new", limit |-> lim, after |-> NoCursor]
         IN  /\ limit' = lim
             /\ requests' = Append(requests, u)
             /\ InvokeWith(u)
             /\ tpc' = "awaitPage"
    ELSE /\ tpc' = "done"
         /\ UNCHANGED <<limit, requests, pacerVars>>
ThreadsLoopHead(f, a) ==
    IF f < count
    THEN LET lim == LimitFor(f)
             u   == [path |-> "new", limit |-> lim, after |-> a]
         IN  /\ limit' = lim
             /\ requests' = Append(requests, u)
             /\ InvokeWith(u)
             /\ tpc' = "awaitPage"
    ELSE /\ tpc' = "done"
         /\ UNCHANGED <<limit, requests, pacerVars>>

\* fetchAllThreads(subreddit, meta, count, token, fetchOptions)
ThreadsCall ==
    /\ tpc = "idle"
    /\ ThreadsLoopHead(0, NoCursor)
    /\ UNCHANGED <<count, after, fetched, threads, received, pageLens,
                   served>>

\* fetchWithRateLimit threw: catch, return threads
ThreadsRequestFailed ==
    /\ tpc = "awaitPage"
    /\ pc = "failed"
    /\ tpc' = "done"
    /\ UNCHANGED <<count, after, fetched, limit, threads, requests, received,
                   pageLens, served, pacerVars>>

\* a fetchAllThreads without its try / catch: the error leaves the function
ThreadsNotOkRaises ==
    /\ tpc = "awaitPage"
    /\ pc = "returned"
    /\ ~Ok(result)
    /\ tpc' = "raised"
    /\ UNCHANGED <<count, after, fetched, limit, threads, requests, received,
                   pageLens, served, pacerVars>>
\* !response.ok: throw, catch, return threads
ThreadsNotOk ==
    /\ tpc = "awaitPage"
    /\ pc = "returned"
    /\ ~Ok(result)
    /\ tpc' = "done"
    /\ UNCHANGED <<count, after, fetched, limit, threads, requests, received,
                   pageLens, served, pacerVars>>

\* an OK response with body b: the children are pushed, then the loop goes on
\* or ends
ThreadsPage(b) ==
    /\ tpc = "awaitPage"
    /\ pc = "returned"
    /\ Ok(result)
    /\ UNCHANGED count
    /\ IF b.kind = "listing" /\ b.n > 0
       THEN LET children == WirePage(b.n, b.bad)
                st == ForChildren(children,
                                  [threads |-> threads, after |-> after,
                                   fetched |-> fetched, thrown |-> FALSE])
            IN  /\ received' = received \o children
                /\ pageLens' = Append(pageLens, b.n)
                /\ served' = served + b.n
                /\ threads' = st.threads
                /\ after' = st.after
                /\ fetched' = st.fetched
                /\ IF st.thrown \/ ShortPage(Len(children), limit)
                   THEN /\ tpc' = "done"
                        /\ UNCHANGED <<limit, requests, pacerVars>>
                   ELSE ThreadsLoopHead(st.fetched, st.after)
       ELSE \* no children (break), or an exception (catch): return threads
            /\ tpc' = "done"
            /\ pageLens' = IF b.kind = "malformed" THEN pageLens
                                                   ELSE Append(pageLens, 0)
            /\ UNCHANGED <<after, fetched, limit, threads, requests,
                           received, served, pacerVars>>

----------------------------------------------------------------------------
(* fetchAllComments (lib) and the comment tree main builds from its result *)

\* the set S as the sequence of its elements in increasing order
SortedSeq(S) ==
    [k \in 1 .. Cardinality(S) |->
        CHOOSE x \in S : Cardinality({y \in S : y < x}) = k - 1]

\* the reply tree on the wire: nodes 1 .. n, node i being the reply whose
\* id is i; parent[i] is the node whose data.replies listing holds node i
\* (0: the top listing data[1].data.children), and a listing holds its
\* nodes in increasing order.  kind[i] is the node's kind, hasData[i]
\* whether it carries a data object; replies live inside data, so a node
\* without data holds no listing.
NoWire == [body |-> "none", n |-> 0, parent |-> <<>>, kind |-> <<>>,
           hasData |-> <<>>]

WireKinds == {"t1", "more"}

WireTreesOf(n) ==
    {w \in [body : {"tree"}, n : {n}, parent : [1 .. n -> 0 .. n],
            kind : [1 .. n -> WireKinds], hasData : [1 .. n -> BOOLEAN]] :
        \A i \in 1 .. n :
            /\ w.parent[i] < i
            /\ w.parent[i] # 0 => w.hasData[w.parent[i]]
            /\ ~w.hasData[i] => w.kind[i] = "t1"}

\* the bodies of an OK response: [post listing, reply listing] with a reply
\* tree of at most MaxNodes nodes, a body without data[1].data.children, or
\* a body that is no JSON
CommentBodies ==
    UNION {WireTreesOf(n) : n \in 0 .. MaxNodes}
    \cup {[NoWire EXCEPT !.body = "nolisting"],
          [NoWire EXCEPT !.body = "malformed"]}

\* c.data.replies.data.children of node p (p = 0: data[1].data.children)
Children(w, p) == SortedSeq({i \in 1 .. w.n : w.parent[i] = p})

\* if (!c.data || c.kind !== 't1') continue
IsReplyAnyKind(w, c) == w.hasData[c]
IsReply(w, c) == w.hasData[c] /\ w.kind[c] = "t1"

\* comments.push({ text, id, subreddit, meta, time, author, ups, downs, ... })
\* the record has no parent_id property
LeafRecord(w, c) == [id |-> c]

\* function extractComments(commentArr): arr is the rest of commentArr, acc
\* the comments pushed so far
RECURSIVE extractComments(_, _, _)
extractComments(w, arr, acc) ==
    IF arr = <<>> THEN acc
    ELSE LET c == Head(arr)
         IN  IF ~IsReply(w, c)
             THEN extractComments(w, Tail(arr), acc)
             ELSE extractComments(w, Tail(arr),
                      extractComments(w, Children(w, c),
                                      Append(acc, LeafRecord(w, c))))

\* comment.parent_id as main reads it: undefined when the record has no
\* such property; Absent stands for undefined / null / ""
Absent == 0
ParentIdOf(comment) ==
    IF "parent_id" \in DOMAIN comment THEN comment.parent_id ELSE Absent

\* commentsMap after the first pass: commentsMap.set(comment.id, object)
\* replaces the object of an id set before, so the object of an id is the
\* one made from the last record carrying it.  An object is named by the
\* position of the record it was made from.
HasId(recs, id) == \E i \in 1 .. Len(recs) : recs[i].id = id
ObjectOf(recs, id) ==
    CHOOSE i \in 1 .. Len(recs) :
        /\ recs[i].id = id
        /\ \A j \in 1 .. Len(recs) : recs[j].id = id => j <= i

\* the forest of one thread: top is topLevelComments, replies[o] the
\* replies array of object o, parent_id[o] its parent_id property
\* ([t3 |-> thread id], [t1 |-> comment id] or null)
NoForest == [top |-> <<>>, replies |-> <<>>, parent_id |-> <<>>]
Null == [null |-> TRUE]
NewForest(recs) ==
    [top |-> <<>>,
     replies |-> [o \in 1 .. Len(recs) |-> <<>>],
     parent_id |-> [o \in 1 .. Len(recs) |-> Null]]

\* parent.replies.push(commentObj), topLevelComments.push(commentObj)
PushFront(arr, obj) == <<obj>> \o arr
Push(arr, obj) == Append(arr, obj)

\* comment.parent_id && commentsMap.has(comment.parent_id)
HasParentNever(recs, comment) == FALSE
HasParent(recs, comment) ==
    ParentIdOf(comment) # Absent /\ HasId(recs, ParentIdOf(comment))

\* the second pass, from record i on: attach the object of each record to
\* its parent's replies, or to topLevelComments
RECURSIVE SecondPass(_, _, _, _)
SecondPass(recs, tid, i, f) ==
    IF i > Len(recs) THEN f
    ELSE LET comment == recs[i]
             commentObj == ObjectOf(recs, comment.id)
         IN  IF HasParent(recs, comment)
             THEN LET parent == ObjectOf(recs, ParentIdOf(comment))
                  IN  SecondPass(recs, tid, i + 1,
                          [f EXCEPT !.replies[parent] = Push(@, commentObj),
                                    !.parent_id[commentObj] =
                                        [t1 |-> ParentIdOf(comment)]])
             ELSE SecondPass(recs, tid, i + 1,
                      [f EXCEPT !.top = Push(@, commentObj),
                                !.parent_id[commentObj] = [t3 |-> tid]])

BuildForest(recs, tid) == SecondPass(recs, tid, 1, NewForest(recs))

CommentsIdle ==
    /\ cpc = "idle"
    /\ wire = NoWire
    /\ comments = <<>>
    /\ forest = NoForest

\* fetchAllComments(subreddit, meta, threadId, token, fetchOptions): the one
\* request of the reply tree
CommentsCall ==
    /\ cpc = "idle"
    /\ InvokeWith([path |-> "comments", limit |-> 0, after |-> NoCursor])
    /\ cpc' = "awaitTree"
    /\ UNCHANGED <<wire, comments, forest>>

\* fetchWithRateLimit threw: catch, return comments
CommentsRequestFailed ==
    /\ cpc = "awaitTree"
    /\ pc = "failed"
    /\ cpc' = "done"
    /\ UNCHANGED <<wire, comments, forest, pacerVars>>

\* a fetchAllComments without its try / catch: the error leaves the function
CommentsNotOkRaises ==
    /\ cpc = "awaitTree"
    /\ pc = "returned"
    /\ ~Ok(result)
    /\ cpc' = "raised"
    /\ UNCHANGED <<wire, comments, forest, pacerVars>>

\* if (!response.ok) throw: catch, return comments
CommentsNotOk ==
    /\ cpc = "awaitTree"
    /\ pc = "returned"
    /\ ~Ok(result)
    /\ cpc' = "done"
    /\ UNCHANGED <<wire, comments, forest, pacerVars>>

\* an OK response with body w: response.json() (which throws on a body that
\* is no JSON), then extractComments(data[1].data.children) if that listing
\* exists; return comments
CommentsBody(w) ==
    /\ cpc = "awaitTree"
    /\ pc = "returned"
    /\ Ok(result)
    /\ wire' = w
    /\ comments' = IF w.body = "tree"
                   THEN extractComments(w, Children(w, 0), <<>>)
                   ELSE <<>>
    /\ cpc' = "done"
    /\ UNCHANGED <<forest, pacerVars>>

\* the thread whose comments are fetched
TheThread == WireEntry(1)

\* main, threadComments.forEach(({ thread, comments }) => ...): the comment
\* tree of the thread, built from the records fetchAllComments returned
BuildThread ==
    /\ cpc = "done"
    /\ forest' = BuildForest(comments, TheThread.id)
    /\ cpc' = "built"
    /\ UNCHANGED <<wire, comments, pacerVars>>

----------------------------------------------------------------------------
(* main: the state of a group's run, and the status line *)

\* Math.round of the fraction n / d, for n >= 0 and d > 0
Round(n, d) == (2 * n + d) \div (2 * d)

\* the percentage printStatusLine renders:
\* Math.round(totalProcessed / totalWork * 100), which is NaN or Infinity
\* when totalWork is 0
NotShown == [rendered |-> FALSE, finite |-> TRUE, pct |-> 0]
Percent(processed, work) ==
    IF work = 0
    THEN [rendered |-> TRUE, finite |-> FALSE, pct |-> 0]
    ELSE [rendered |-> TRUE, finite |-> TRUE,
          pct |-> Round(100 * processed, work)]

\* times.push(time); if (times.length > window) times.shift()
PushTimeNoShift(times, time, window) == Append(times, time)
PushTime(times, time, window) ==
    IF Len(times) + 1 > window THEN Tail(Append(times, time))
                               ELSE Append(times, time)

\* totalThreads: the sum of the counts of the subreddits of a group
RECURSIVE Sum(_)
Sum(counts) == IF counts = <<>> THEN 0 ELSE Head(counts) + Sum(Tail(counts))

\* the state main declares at the head of each iteration of the group loop
GroupStateCarried(counts) ==
    [totalWork |-> totalWork + Sum(counts),
     totalProcessed |-> totalProcessed,
     threadsProcessed |-> threadsProcessed,
     commentsProcessed |-> commentsProcessed,
     totalComments |-> totalComments,
     estimatedTotalThreads |-> estimatedTotalThreads + Sum(counts),
     threadTimes |-> threadTimes,
     commentTimes |-> commentTimes]
GroupState(counts) ==
    [totalWork |-> Sum(counts),
     totalProcessed |-> 0,
     threadsProcessed |-> 0,
     commentsProcessed |-> 0,
     totalComments |-> 0,
     estimatedTotalThreads |-> Sum(counts),
     threadTimes |-> <<>>,
     commentTimes |-> <<>>]

\* t.time || t.created_utc || 0: the records fetchAllThreads and
\* fetchAllComments build carry created_utc as time; a record without it
\* counts as 0
Time(r) == IF "time" \in DOMAIN r THEN r.time ELSE 0

\* if (useSinceDate && lastRunTimestamp > 0)
\*   records = records.filter(r => (r.time || r.created_utc || 0)
\*                                    > lastRunTimestamp)
NewerInclusive(r) == Time(r) >= lastRunTimestamp
Newer(r) == Time(r) > lastRunTimestamp
SinceFilter(records) ==
    IF useSinceDate /\ lastRunTimestamp > 0
    THEN SelectSeq(records, Newer)
    ELSE records

\* if (threads.length < count) totalWork -= count - threads.length
AfterListingIgnored(work, requested, actual) == work
AfterListing(work, requested, actual) ==
    IF actual < requested THEN work - (requested - actual) ELSE work

\* totalWork += comments.length
AddRepliesWithEstimate(work, n) == work + n + 1
AddReplies(work, n) == work + n

\* the state of a run that has not started a group
WorkIdle ==
    /\ totalWork = 0
    /\ totalProcessed = 0
    /\ threadsProcessed = 0
    /\ commentsProcessed = 0
    /\ totalComments = 0
    /\ estimatedTotalThreads = 0
    /\ threadTimes = <<>>
    /\ commentTimes = <<>>
    /\ timed = [threads |-> 0, comments |-> 0]
    /\ shown = NotShown

\* no earlier run was detected (no last_run.json), or the operator
\* declined to take only what is new
SinceIdle ==
    /\ useSinceDate = FALSE
    /\ lastRunTimestamp = 0
    /\ listed = <<>>
    /\ returnedReplies = 0

\* no subreddit entry yet, no autosave callback running, no file written
SaveIdle ==
    /\ jsonOutput = <<>>
    /\ apc = "idle"
    /\ finalOutput = 0
    /\ pending = <<>>
    /\ autosaveThreads = <<>>
    /\ autosaveComments = <<>>
    /\ autosaveJson = <<>>

RunIdle ==
    /\ rpc = "idle"
    /\ plan = <<>>
    /\ group = 0
    /\ source = 0
    /\ visited = <<>>
    /\ exports = <<>>

----------------------------------------------------------------------------
(* main: pMap(threads, mapper, { concurrency: maxParallelThreads }) *)

\* (config.options && config.options.maxParallelThreads) || 5, v being the
\* configured value (Absent: not configured)
MaxParallelThreadsFixed(v) == DefaultMaxParallelThreads
MaxParallelThreads(v) == IF v = Absent THEN DefaultMaxParallelThreads ELSE v

\* the threads of a subreddit, in listing order
ThreadLists == {[i \in 1 .. n |-> WireEntry(i)] : n \in 0 .. MaxItems}

\* what fetchAllComments may return to a mapper
CommentLists == {[k \in 1 .. m |-> [id |-> k]] : m \in 0 .. MaxComments}

NoResult == [thread |-> BadEntry(0), comments |-> <<>>]

SchedIdle ==
    /\ spc = "idle"
    /\ stage = <<>>
    /\ fetchedOf = <<>>
    /\ nextItem = 0
    /\ results = <<>>
    /\ posts = <<>>

\* the mappers whose promise is pending
InFlight == {i \in 1 .. Len(stage) : stage[i] \in {"fetching", "writing"}}

\* pMap starts the mappers of the first `concurrency` items of the iterator
StartCount(c, n) == Min(c, n)

\* pMap stores the value of the mapper of item i at index i of its result
ResultSlot(i, done) == i

\* catch (err) { ...; return { thread, comments: [] } }
FailedResultKeeps(thread, cs) == [thread |-> thread, comments |-> cs]
FailedResult(thread, cs) == [thread |-> thread, comments |-> <<>>]

\* await pMap(threads, async (thread, idx) => ..., { concurrency })
SchedCall ==
    /\ rpc = "mapping"
    /\ spc = "idle"
    /\ LET n == Len(items)
           k == StartCount(concurrency, n)
       IN  /\ stage' = [i \in 1 .. n |->
                           IF i <= k THEN "fetching" ELSE "pending"]
           /\ fetchedOf' = [i \in 1 .. n |-> <<>>]
           /\ results' = [i \in 1 .. n |-> NoResult]
           /\ nextItem' = k + 1
           /\ spc' = IF n = 0 THEN "resolved" ELSE "running"
    /\ UNCHANGED <<configured, concurrency, exportCsv, items, posts,
                   workVars, sinceVars, saveVars>>

\* the mappers that have returned: from the try block, or from the catch
Settled == {i \in 1 .. Len(stage) : stage[i] \in {"returned", "caught"}}

\* the mapper of item i returned value, from its try block or from its
\* catch (how): pMap stores it and calls next(), which starts the mapper of
\* the next item of the iterator, or resolves once the iterator is
\* exhausted and no mapper is pending
Settle(i, value, how) ==
    /\ results' = [results EXCEPT
                      ![ResultSlot(i, Cardinality(Settled))] = value]
    /\ IF nextItem <= Len(items)
       THEN /\ stage' = [stage EXCEPT ![i] = how,
                                      ![nextItem] = "fetching"]
            /\ nextItem' = nextItem + 1
            /\ spc' = spc
       ELSE /\ stage' = [stage EXCEPT ![i] = how]
            /\ nextItem' = nextItem
            /\ spc' = IF InFlight \ {i} = {} THEN "resolved" ELSE spc

\* comments = await fetchAllComments(...) returned cs to the mapper of item
\* i (fetchAllComments does not throw): the mapper records the duration
\* (represented by its arrival number), counts the comments as processed
\* and renders the status line; then it goes on to
\* commentsWriter.writeRecords(comments), or adds the comments to totalWork
\* and returns { thread, comments }
MapperFetched(i, cs) ==
    /\ spc = "running"
    /\ i \in 1 .. Len(stage)
    /\ stage[i] = "fetching"
    /\ returnedReplies' = returnedReplies + Len(cs)
    /\ LET kept == SinceFilter(cs)
       IN  /\ fetchedOf' = [fetchedOf EXCEPT ![i] = kept]
           /\ totalComments' = totalComments + Len(kept)
           /\ commentsProcessed' = commentsProcessed + Len(kept)
           /\ totalProcessed' = totalProcessed + Len(kept)
           /\ shown' = Percent(totalProcessed + Len(kept), totalWork)
           /\ IF exportCsv /\ Len(kept) > 0
              THEN /\ stage' = [stage EXCEPT ![i] = "writing"]
                   /\ UNCHANGED <<spc, nextItem, results, totalWork>>
              ELSE /\ totalWork' = AddReplies(totalWork, Len(kept))
                   /\ Settle(i, [thread |-> items[i], comments |-> kept],
                             "returned")
    /\ commentTimes' = PushTime(commentTimes, timed.comments + 1,
                                CommentWindow)
    /\ timed' = [timed EXCEPT !.comments = @ + 1]
    /\ UNCHANGED <<configured, concurrency, exportCsv, items, posts,
                   threadsProcessed, estimatedTotalThreads, threadTimes,
                   useSinceDate, lastRunTimestamp, listed, saveVars>>

\* writeRecords resolved: return { thread, comments }
MapperWritten(i) ==
    /\ spc = "running"
    /\ i \in 1 .. Len(stage)
    /\ stage[i] = "writing"
    /\ Settle(i, [thread |-> items[i], comments |-> fetchedOf[i]],
              "returned")
    /\ totalWork' = AddReplies(totalWork, Len(fetchedOf[i]))
    /\ UNCHANGED <<configured, concurrency, exportCsv, items, fetchedOf,
                   posts, totalProcessed, threadsProcessed,
                   commentsProcessed, totalComments, estimatedTotalThreads,
                   threadTimes, commentTimes, timed, shown, sinceVars,
                   saveVars>>

\* writeRecords rejected: catch, render the status line, return
\* { thread, comments: [] }
MapperFailed(i) ==
    /\ spc = "running"
    /\ i \in 1 .. Len(stage)
    /\ stage[i] = "writing"
    /\ Settle(i, FailedResult(items[i], fetchedOf[i]), "caught")
    /\ shown' = Percent(totalProcessed, totalWork)
    /\ UNCHANGED <<configured, concurrency, exportCsv, items, fetchedOf,
                   posts, totalWork, totalProcessed, threadsProcessed,
                   commentsProcessed, totalComments, estimatedTotalThreads,
                   threadTimes, commentTimes, timed, sinceVars, saveVars>>

\* omega-red.mjs: const AVG_COMMENTS_PER_THREAD = 5
AVG_COMMENTS_PER_THREAD == 5

\* omega-red.mjs, the mapper of item i after comments = await
\* fetchAllComments(...) returned cs: totalComments is raised; for the last
\* item of the subreddit the average is computed, and if it differs from
\* AVG_COMMENTS_PER_THREAD by more than 1, totalWork is adjusted and
\* AVG_COMMENTS_PER_THREAD = newAvg is evaluated: an assignment to a const
\* binding throws a TypeError, so the mapper goes to its catch, renders the
\* status line and returns { thread, comments: [] }. Otherwise the mapper
\* records the duration, counts the comments as processed, renders the
\* status line and goes on to writeRecords or returns { thread, comments }
LegacyMapperFetched(i, cs) ==
    /\ spc = "running"
    /\ i \in 1 .. Len(stage)
    /\ stage[i] = "fetching"
    /\ returnedReplies' = returnedReplies + Len(cs)
    /\ fetchedOf' = [fetchedOf EXCEPT ![i] = cs]
    /\ totalComments' = totalComments + Len(cs)
    /\ LET n == Len(cs)
           refines == /\ i = Len(items)
                      /\ totalComments + n > 0
                      /\ threadsProcessed > 0
           newAvg == Max(1, Round(totalComments + n, threadsProcessed))
           significant ==
               Max(newAvg - AVG_COMMENTS_PER_THREAD,
                   AVG_COMMENTS_PER_THREAD - newAvg) > 1
           remainingThreads == estimatedTotalThreads - threadsProcessed
           adjusted ==
               totalWork
                   + remainingThreads * (newAvg - AVG_COMMENTS_PER_THREAD)
       IN  IF refines /\ significant
           THEN /\ totalWork' = adjusted
                /\ shown' = Percent(totalProcessed, adjusted)
                /\ Settle(i, FailedResult(items[i], cs), "caught")
                /\ UNCHANGED <<commentTimes, timed, commentsProcessed,
                               totalProcessed>>
           ELSE /\ commentTimes' = PushTime(commentTimes,
                                            timed.comments + 1, CommentWindow)
                /\ timed' = [timed EXCEPT !.comments = @ + 1]
                /\ commentsProcessed' = commentsProcessed + n
                /\ totalProcessed' = totalProcessed + n
                /\ shown' = Percent(totalProcessed + n, totalWork)
                /\ totalWork' = totalWork
                /\ IF exportCsv /\ n > 0
                   THEN /\ stage' = [stage EXCEPT ![i] = "writing"]
                        /\ UNCHANGED <<spc, nextItem, results>>
                   ELSE Settle(i, [thread |-> items[i], comments |-> cs],
                               "returned")
    /\ UNCHANGED <<configured, concurrency, exportCsv, items, posts,
                   threadsProcessed, estimatedTotalThreads, threadTimes,
                   useSinceDate, lastRunTimestamp, listed, saveVars>>

\* omega-red.mjs: writeRecords resolved: return { thread, comments }
LegacyMapperWritten(i) ==
    /\ spc = "running"
    /\ i \in 1 .. Len(stage)
    /\ stage[i] = "writing"
    /\ Settle(i, [thread |-> items[i], comments |-> fetchedOf[i]],
              "returned")
    /\ UNCHANGED <<configured, concurrency, exportCsv, items, fetchedOf,
                   posts, workVars, sinceVars, saveVars>>

\* the threadObject of a result, as far as the files written from
\* jsonOutput tell posts apart: its subreddit, its id and the number of
\* comments under it
PostOf(k, r) == [src |-> k, id |-> r.thread.id, n |-> Len(r.comments)]

\* a forEach that puts each post in front of the posts exported before it
ExportPostsUnshift ==
    /\ spc = "resolved"
    /\ posts' = [k \in 1 .. Len(results) |->
                    results[Len(results) + 1 - k].thread.id]
    /\ jsonOutput' = [jsonOutput EXCEPT ![source] =
                         [k \in 1 .. Len(results) |->
                             PostOf(source, results[Len(results) + 1 - k])]]
    /\ spc' = "exported"
    /\ UNCHANGED <<configured, concurrency, exportCsv, items, stage,
                   fetchedOf, nextItem, results, workVars, sinceVars,
                   tickVars, fileVars>>

\* threadComments.forEach(({ thread, comments }) => { ...;
\* jsonOutput[subreddit].posts.push(threadObject) })
ExportPosts ==
    /\ spc = "resolved"
    /\ posts' = [k \in 1 .. Len(results) |-> results[k].thread.id]
    /\ jsonOutput' = [jsonOutput EXCEPT ![source] =
                         [k \in 1 .. Len(results) |->
                             PostOf(source, results[k])]]
    /\ spc' = "exported"
    /\ UNCHANGED <<configured, concurrency, exportCsv, items, stage,
                   fetchedOf, nextItem, results, workVars, sinceVars,
                   tickVars, fileVars>>

----------------------------------------------------------------------------
(* main: the loop over the groups and the loop over their subreddits *)

\* for (const meta of Object.keys(subredditsConfig)): the head of the
\* iteration of a group declares its state and renders the status line
GroupStart ==
    /\ rpc = "group"
    /\ LET st == GroupState(plan[group])
       IN  /\ totalWork' = st.totalWork
           /\ totalProcessed' = st.totalProcessed
           /\ threadsProcessed' = st.threadsProcessed
           /\ commentsProcessed' = st.commentsProcessed
           /\ totalComments' = st.totalComments
           /\ estimatedTotalThreads' = st.estimatedTotalThreads
           /\ threadTimes' = st.threadTimes
           /\ commentTimes' = st.commentTimes
           /\ timed' = [threads |-> Len(st.threadTimes),
                        comments |-> Len(st.commentTimes)]
           /\ shown' = Percent(0, st.totalWork)
    /\ source' = 1
    /\ rpc' = IF Len(plan[group]) = 0 THEN "export" ELSE "source"
    /\ listed' = <<>>
    /\ returnedReplies' = 0
    /\ jsonOutput' = <<>>
    /\ UNCHANGED <<plan, group, visited, exports, schedVars, useSinceDate,
                   lastRunTimestamp, tickVars, fileVars>>

\* for (const subreddit of Object.keys(subredditsConfig[meta])):
\* threads = await fetchAllThreads(subreddit, meta, count, ...)
SourceStart ==
    /\ rpc = "source"
    /\ visited' = Append(visited, <<group, source>>)
    /\ rpc' = "listing"
    /\ UNCHANGED <<plan, group, source, exports, schedVars, workVars,
                   sinceVars, saveVars>>

\* fetchAllThreads returned listing: main keeps the threads newer than the
\* last run (when asked to), takes the shortfall off totalWork, records the
\* duration (represented by its arrival number), and counts each thread as
\* processed, rendering the status line after each; the last rendering
\* shows the highest percentage of the loop
ThreadsListed(listing) ==
    /\ rpc = "listing"
    /\ listed' = listing
    /\ LET kept  == SinceFilter(listing)
           work  == AfterListing(totalWork, plan[group][source], Len(kept))
           short == plan[group][source] - Len(kept)
       IN  /\ items' = kept
           /\ totalWork' = work
           /\ estimatedTotalThreads' =
                  IF short > 0 THEN estimatedTotalThreads - short
                               ELSE estimatedTotalThreads
           /\ shown' = IF Len(kept) = 0 THEN shown
                       ELSE Percent(totalProcessed + Len(kept), work)
           /\ threadsProcessed' = threadsProcessed + Len(kept)
           /\ totalProcessed' = totalProcessed + Len(kept)
    /\ threadTimes' = PushTime(threadTimes, timed.threads + 1, ThreadWindow)
    /\ timed' = [timed EXCEPT !.threads = @ + 1]
    /\ jsonOutput' = Append(jsonOutput, <<>>)
    /\ rpc' = "mapping"
    /\ UNCHANGED <<plan, group, source, visited, exports, commentTimes,
                   commentsProcessed, totalComments, useSinceDate,
                   lastRunTimestamp, returnedReplies, spc, configured,
                   concurrency, exportCsv, stage, fetchedOf, nextItem,
                   results, posts, tickVars, fileVars>>

\* fetchAllThreads returned actual threads (none, or those of the pages
\* before, when the listing failed): the shortfall is taken off totalWork,
\* the duration is recorded (represented by its arrival number), and each
\* thread is counted as processed, the status line being rendered after
\* each; the last rendering shows the highest percentage of the loop
ListingFailureEscapes(actual) ==
    /\ rpc = "listing"
    /\ actual \in 0 .. plan[group][source]
    /\ rpc' = IF actual < plan[group][source] THEN "crashed" ELSE "mapping"
    /\ items' = [i \in 1 .. actual |-> WireEntry(i)]
    /\ UNCHANGED <<plan, group, source, visited, exports, workVars,
                   sinceVars, saveVars, spc, configured, concurrency,
                   exportCsv, stage, fetchedOf, nextItem, results, posts>>
ListingReturned(actual) ==
    /\ rpc = "listing"
    /\ actual \in 0 .. plan[group][source]
    /\ ThreadsListed([i \in 1 .. actual |-> WireEntry(i)])

\* the end of the iteration of a subreddit, after threadComments.forEach:
\* the next subreddit of the group, or the export step of the group
SourceDone ==
    /\ rpc = "mapping"
    /\ spc = "exported"
    /\ spc' = "idle"
    /\ items' = <<>>
    /\ stage' = <<>>
    /\ fetchedOf' = <<>>
    /\ nextItem' = 0
    /\ results' = <<>>
    /\ posts' = <<>>
    /\ IF source < Len(plan[group])
       THEN /\ source' = source + 1
            /\ rpc' = "source"
       ELSE /\ source' = source
            /\ rpc' = "export"
    /\ UNCHANGED <<plan, group, visited, exports, configured, concurrency,
                   exportCsv, workVars, sinceVars, saveVars>>

\* the posts of all the subreddit entries, in the order of the entries
RECURSIVE Flatten(_)
Flatten(lists) ==
    IF lists = <<>> THEN <<>> ELSE Head(lists) \o Flatten(Tail(lists))

\* the export step of the group (the files are written), then the next
\* group, or the end of main
GroupExport ==
    /\ rpc = "export"
    /\ exports' = Append(exports, group)
    /\ IF group < Len(plan)
       THEN /\ group' = group + 1
            /\ rpc' = "group"
       ELSE /\ group' = group
            /\ rpc' = "finished"
    /\ UNCHANGED <<plan, source, visited, schedVars, workVars, sinceVars,
                   saveVars>>

----------------------------------------------------------------------------
(* main: the autosave timer of a group and the SIGINT handler *)

\* the timer is set after the group's state is declared and cleared after
\* the group's export step
TimerArmed == rpc \in {"source", "listing", "mapping", "export"}

\* the rows of the comments CSV: one row per comment of each post
RECURSIVE CommentRows(_)
CommentRows(ps) ==
    IF ps = <<>> THEN <<>>
    ELSE [j \in 1 .. Head(ps).n |->
             [src |-> Head(ps).src, id |-> Head(ps).id, k |-> j]]
         \o CommentRows(Tail(ps))

\* the callback of setInterval up to its first await: nothing to save
\* without a post; otherwise the JSON text, or the rows of the threads CSV,
\* is computed from jsonOutput and its write is awaited
AutosaveTick ==
    /\ TimerArmed
    /\ apc = "idle"
    /\ Flatten(jsonOutput) # <<>>
    /\ finalOutput' = Len(jsonOutput)
    /\ pending' = Flatten(jsonOutput)
    /\ apc' = IF exportCsv THEN "threads" ELSE "json"
    /\ UNCHANGED <<jsonOutput, fileVars, schedVars, workVars, sinceVars,
                   runVars>>

\* fs.writeFile(autosaveJsonPath, ...) resolves
AutosaveJsonWritten ==
    /\ apc = "json"
    /\ autosaveJson' = pending
    /\ apc' = "idle"
    /\ pending' = <<>>
    /\ UNCHANGED <<jsonOutput, finalOutput, autosaveThreads,
                   autosaveComments, schedVars, workVars, sinceVars, runVars>>

\* csvWriter.writeRecords(allThreads) resolves: the rows of the comments
\* CSV are computed from the posts that the entries of finalOutput hold
\* now, and their write is awaited if there is any
AutosaveThreadsWritten ==
    /\ apc = "threads"
    /\ autosaveThreads' = pending
    /\ LET allComments ==
               CommentRows(Flatten(SubSeq(jsonOutput, 1, finalOutput)))
       IN  IF allComments = <<>>
           THEN /\ apc' = "idle"
                /\ pending' = <<>>
           ELSE /\ apc' = "comments"
                /\ pending' = allComments
    /\ UNCHANGED <<jsonOutput, finalOutput, autosaveComments, autosaveJson,
                   schedVars, workVars, sinceVars, runVars>>

\* csvWriter.writeRecords(allComments) resolves
AutosaveCommentsWritten ==
    /\ apc = "comments"
    /\ autosaveComments' = pending
    /\ apc' = "idle"
    /\ pending' = <<>>
    /\ UNCHANGED <<jsonOutput, finalOutput, autosaveThreads, autosaveJson,
                   schedVars, workVars, sinceVars, runVars>>

\* a write of the callback rejects: its catch logs the error
AutosaveFailed ==
    /\ apc \in {"json", "threads", "comments"}
    /\ apc' = "idle"
    /\ pending' = <<>>
    /\ UNCHANGED <<jsonOutput, finalOutput, fileVars, schedVars, workVars,
                   sinceVars, runVars>>

\* process.on('SIGINT'): the handler logs a message and calls
\* process.exit(1), which drops main, the mappers, the timer and the
\* pending writes
Interrupt ==
    /\ rpc \in {"group", "source", "listing", "mapping", "export"}
    /\ rpc' = "exited"
    /\ spc' = "exited"
    /\ apc' = "exited"
    /\ UNCHANGED <<plan, group, source, visited, exports, configured,
                   concurrency, exportCsv, items, stage, fetchedOf, nextItem,
                   results, posts, workVars, sinceVars, jsonOutput,
                   finalOutput, pending, fileVars>>

----------------------------------------------------------------------------
(* calculateEta (lib/helpers) *)

\* JavaScript numbers as exact fractions num / den (the rounding of floats
\* is not modelled)
Frac(n, d) == [num |-> n, den |-> d]
NoEta == Frac(0, 0)

\* const remaining = Math.max(0, total - completed)
RemainingUnclamped(total, completed) == total - completed
Remaining(total, completed) == Max(0, total - completed)

\* calculateEta(startTime, completed, total), elapsedMs being
\* Date.now() - startTime
calculateEta(elapsedMs, completed, total) ==
    IF completed <= 0 THEN Frac(0, 1)
    ELSE LET elapsed   == Frac(elapsedMs, 1000)
             rate      == Frac(elapsed.num, elapsed.den * completed)
             remaining == Remaining(total, completed)
         IN  Frac(rate.num * remaining, rate.den)

\* exportGroupToMarkdown is not running
MdIdle ==
    /\ mdpc = "idle"
    /\ mdInput = <<>>
    /\ mdText = 0
    /\ maxFileSizeBytes = 0
    /\ currentMd = <<>>
    /\ partNumber = 0
    /\ mdFiles = <<>>
    /\ mdSub = 0
    /\ mdPost = 0

EtaIdle ==
    /\ etaArgs = [elapsedMs |-> 0, completed |-> 0, total |-> 0]
    /\ etaResult = NoEta

EtaCall ==
    /\ etaResult = NoEta
    /\ etaResult' = calculateEta(etaArgs.elapsedMs, etaArgs.completed,
                                 etaArgs.total)
    /\ UNCHANGED etaArgs

----------------------------------------------------------------------------
(* Specifications *)

\* the threads, the pMap configuration and the export format of a run that
\* has not reached its pMap call
SchedUnused ==
    /\ configured = Absent
    /\ concurrency = MaxParallelThreads(configured)
    /\ exportCsv = FALSE
    /\ items = <<>>
    /\ SchedIdle

InitPacer ==
    /\ opts \in PacerOptions
    /\ url \in Urls
    /\ PacerIdle
    /\ count = 0
    /\ ThreadsIdle
    /\ CommentsIdle
    /\ SchedUnused
    /\ WorkIdle
    /\ SinceIdle
    /\ SaveIdle
    /\ RunIdle
    /\ EtaIdle
    /\ MdIdle

NextPacer ==
    \/ Invoke /\ UNCHANGED <<threadVars, commentVars, mainVars>>
    \/ (\E r \in Responses : FetchResolves(r))
           /\ UNCHANGED <<threadVars, commentVars, mainVars>>
    \/ FetchRejects /\ UNCHANGED <<threadVars, commentVars, mainVars>>
    \/ PacingDone /\ UNCHANGED <<threadVars, commentVars, mainVars>>
    \/ BackoffDone /\ UNCHANGED <<threadVars, commentVars, mainVars>>

SpecPacer == InitPacer /\ [][NextPacer]_vars

\* every pending fetch settles and every timer fires
SpecPacerFair == SpecPacer /\ WF_vars(NextPacer)

\* main calls fetchAllThreads with fetchOptions { minDelay, highDelay }: the
\* other tunables keep their defaults
ThreadsOptions ==
    [impl : {"quota", "simple"},
     maxRetries : {DefaultMaxRetries},
     baseDelay : {DefaultBaseDelay},
     minDelay : {DefaultMinDelay},
     highDelay : {DefaultHighDelay}]

\* the responses of the listing endpoint
ListingResponses ==
    [status : Statuses,
     remaining : {NullHeader, NumHeader(5 * Scale)},
     reset : {NumHeader(10 * Scale)}]

Counts == {0, 1, 2, PageLimit, PageLimit + 1, 2 * PageLimit + 50}

InitThreads ==
    /\ opts \in ThreadsOptions
    /\ url = [path |-> "new", limit |-> 0, after |-> NoCursor]
    /\ PacerIdle
    /\ count \in Counts
    /\ ThreadsIdle
    /\ CommentsIdle
    /\ SchedUnused
    /\ WorkIdle
    /\ SinceIdle
    /\ SaveIdle
    /\ RunIdle
    /\ EtaIdle
    /\ MdIdle

NextThreads ==
    \/ ThreadsCall /\ UNCHANGED <<commentVars, mainVars>>
    \/ (\E r \in ListingResponses : FetchResolves(r))
           /\ UNCHANGED <<threadVars, commentVars, mainVars>>
    \/ FetchRejects /\ UNCHANGED <<threadVars, commentVars, mainVars>>
    \/ PacingDone /\ UNCHANGED <<threadVars, commentVars, mainVars>>
    \/ BackoffDone /\ UNCHANGED <<threadVars, commentVars, mainVars>>
    \/ ThreadsRequestFailed /\ UNCHANGED <<commentVars, mainVars>>
    \/ ThreadsNotOk /\ UNCHANGED <<commentVars, mainVars>>
    \/ (\E b \in Bodies(limit) : ThreadsPage(b))
           /\ UNCHANGED <<commentVars, mainVars>>

SpecThreads == InitThreads /\ [][NextThreads]_vars

\* every pending fetch settles and every timer fires
SpecThreadsFair == SpecThreads /\ WF_vars(NextThreads)

\* one fetchAllComments invocation, called by main's mapper with
\* fetchOptions { minDelay, highDelay }, and main's tree build on its result
InitComments ==
    /\ opts \in ThreadsOptions
    /\ url = [path |-> "comments", limit |-> 0, after |-> NoCursor]
    /\ PacerIdle
    /\ count = 0
    /\ ThreadsIdle
    /\ CommentsIdle
    /\ SchedUnused
    /\ WorkIdle
    /\ SinceIdle
    /\ SaveIdle
    /\ RunIdle
    /\ EtaIdle
    /\ MdIdle

NextComments ==
    \/ CommentsCall /\ UNCHANGED <<threadVars, mainVars>>
    \/ (\E r \in ListingResponses : FetchResolves(r))
           /\ UNCHANGED <<threadVars, commentVars, mainVars>>
    \/ FetchRejects /\ UNCHANGED <<threadVars, commentVars, mainVars>>
    \/ PacingDone /\ UNCHANGED <<threadVars, commentVars, mainVars>>
    \/ BackoffDone /\ UNCHANGED <<threadVars, commentVars, mainVars>>
    \/ CommentsRequestFailed /\ UNCHANGED <<threadVars, mainVars>>
    \/ CommentsNotOk /\ UNCHANGED <<threadVars, mainVars>>
    \/ (\E w \in CommentBodies : CommentsBody(w))
           /\ UNCHANGED <<threadVars, mainVars>>
    \/ BuildThread /\ UNCHANGED <<threadVars, mainVars>>

SpecComments == InitComments /\ [][NextComments]_vars

\* main's tree build on any sequence of n records.  The id of a comment
\* identifies it, so the ids of a sequence are distinct: 1 .. n, in
\* ascending or in descending order; a parent_id is absent, one of these
\* ids (the record's own included), or the id of no record (n + 1); at
\* most MaxLinked records of a sequence carry a parent_id.
RecordIds(n) == {[i \in 1 .. n |-> i], [i \in 1 .. n |-> n + 1 - i]}
ParentIds(n) ==
    {ps \in [1 .. n -> {Absent} \cup 1 .. (n + 1)] :
        Cardinality({i \in 1 .. n : ps[i] # Absent}) <= MaxLinked}

RecordLists ==
    UNION {{[i \in 1 .. n |-> [id |-> ids[i], parent_id |-> ps[i]]] :
               ids \in RecordIds(n), ps \in ParentIds(n)} :
           n \in 0 .. MaxRecords}

InitTree ==
    /\ opts \in {o \in ThreadsOptions : o.impl = "quota"}
    /\ url = [path |-> "comments", limit |-> 0, after |-> NoCursor]
    /\ PacerIdle
    /\ count = 0
    /\ ThreadsIdle
    /\ cpc = "done"
    /\ wire = NoWire
    /\ comments \in RecordLists
    /\ forest = NoForest
    /\ SchedUnused
    /\ WorkIdle
    /\ SinceIdle
    /\ SaveIdle
    /\ RunIdle
    /\ EtaIdle
    /\ MdIdle

NextTree ==
    BuildThread /\ UNCHANGED <<threadVars, mainVars>>

SpecTree == InitTree /\ [][NextTree]_vars

\* the pMap call of one subreddit, over threads in listing order
MaxParallelConfigs == {Absent, 1, 2}

InitSched ==
    /\ opts \in {o \in ThreadsOptions : o.impl = "quota"}
    /\ url = [path |-> "comments", limit |-> 0, after |-> NoCursor]
    /\ PacerIdle
    /\ count = 0
    /\ ThreadsIdle
    /\ CommentsIdle
    /\ configured \in MaxParallelConfigs
    /\ concurrency = MaxParallelThreads(configured)
    /\ exportCsv \in BOOLEAN
    /\ items \in ThreadLists
    /\ SchedIdle
    \* the group holds this one subreddit, whose listing returned all the
    \* threads asked for; main has gone through its thread loop
    /\ rpc = "mapping"
    /\ plan = <<<<Len(items)>>>>
    /\ group = 1
    /\ source = 1
    /\ visited = <<<<1, 1>>>>
    /\ exports = <<>>
    /\ totalWork = Len(items)
    /\ totalProcessed = Len(items)
    /\ threadsProcessed = Len(items)
    /\ commentsProcessed = 0
    /\ totalComments = 0
    /\ estimatedTotalThreads = Len(items)
    /\ useSinceDate = FALSE
    /\ lastRunTimestamp = 0
    /\ listed = items
    /\ returnedReplies = 0
    /\ jsonOutput = <<<<>>>>
    /\ apc = "idle"
    /\ finalOutput = 0
    /\ pending = <<>>
    /\ autosaveThreads = <<>>
    /\ autosaveComments = <<>>
    /\ autosaveJson = <<>>
    /\ threadTimes = <<1>>
    /\ commentTimes = <<>>
    /\ timed = [threads |-> 1, comments |-> 0]
    /\ shown = Percent(Len(items), Len(items))
    /\ EtaIdle
    /\ MdIdle

NextSched ==
    \/ SchedCall
           /\ UNCHANGED <<pacerVars, threadVars, commentVars, runVars, etaVars,
                        mdVars>>
    \/ (\E i \in 1 .. MaxItems, cs \in CommentLists : MapperFetched(i, cs))
           /\ UNCHANGED <<pacerVars, threadVars, commentVars, runVars, etaVars,
                        mdVars>>
    \/ (\E i \in 1 .. MaxItems : MapperWritten(i))
           /\ UNCHANGED <<pacerVars, threadVars, commentVars, runVars, etaVars,
                        mdVars>>
    \/ (\E i \in 1 .. MaxItems : MapperFailed(i))
           /\ UNCHANGED <<pacerVars, threadVars, commentVars, runVars, etaVars,
                        mdVars>>
    \/ ExportPosts
           /\ UNCHANGED <<pacerVars, threadVars, commentVars, runVars, etaVars,
                        mdVars>>

SpecSched == InitSched /\ [][NextSched]_vars

\* omega-red.mjs: the pMap call of the one subreddit of the configuration,
\* whose listing returned all the threads asked for; the estimate of the
\* comments of its threads has been added to totalWork
InitLegacy ==
    /\ opts \in {o \in ThreadsOptions : o.impl = "quota"}
    /\ url = [path |-> "comments", limit |-> 0, after |-> NoCursor]
    /\ PacerIdle
    /\ count = 0
    /\ ThreadsIdle
    /\ CommentsIdle
    /\ configured \in MaxParallelConfigs
    /\ concurrency = MaxParallelThreads(configured)
    /\ exportCsv \in BOOLEAN
    /\ items \in ThreadLists
    /\ SchedIdle
    /\ rpc = "mapping"
    /\ plan = <<<<Len(items)>>>>
    /\ group = 1
    /\ source = 1
    /\ visited = <<<<1, 1>>>>
    /\ exports = <<>>
    /\ totalWork = Len(items) + Len(items) * AVG_COMMENTS_PER_THREAD
    /\ totalProcessed = Len(items)
    /\ threadsProcessed = Len(items)
    /\ commentsProcessed = 0
    /\ totalComments = 0
    /\ estimatedTotalThreads = Len(items)
    /\ useSinceDate = FALSE
    /\ lastRunTimestamp = 0
    /\ listed = items
    /\ returnedReplies = 0
    /\ SaveIdle
    /\ threadTimes = <<1>>
    /\ commentTimes = <<>>
    /\ timed = [threads |-> 1, comments |-> 0]
    /\ shown = Percent(Len(items),
                       Len(items) + Len(items) * AVG_COMMENTS_PER_THREAD)
    /\ EtaIdle
    /\ MdIdle

NextLegacy ==
    \/ SchedCall
           /\ UNCHANGED <<pacerVars, threadVars, commentVars, runVars, etaVars,
                        mdVars>>
    \/ (\E i \in 1 .. MaxItems, cs \in CommentLists :
            LegacyMapperFetched(i, cs))
           /\ UNCHANGED <<pacerVars, threadVars, commentVars, runVars, etaVars,
                        mdVars>>
    \/ (\E i \in 1 .. MaxItems : LegacyMapperWritten(i))
           /\ UNCHANGED <<pacerVars, threadVars, commentVars, runVars, etaVars,
                        mdVars>>
    \/ (\E i \in 1 .. MaxItems : MapperFailed(i))
           /\ UNCHANGED <<pacerVars, threadVars, commentVars, runVars, etaVars,
                        mdVars>>

SpecLegacy == InitLegacy /\ [][NextLegacy]_vars

\* main's run over config.subreddits: every group holds the same number of
\* subreddits, each with the same count
Plans ==
    {[g \in 1 .. ng |-> [k \in 1 .. ns |-> c]] :
        ng \in 1 .. MaxGroups, ns \in 1 .. MaxGroupSources,
        c \in 1 .. MaxCount}

InitRun ==
    /\ opts \in {o \in ThreadsOptions : o.impl = "quota"}
    /\ url = [path |-> "comments", limit |-> 0, after |-> NoCursor]
    /\ PacerIdle
    /\ count = 0
    /\ ThreadsIdle
    /\ CommentsIdle
    /\ configured \in MaxParallelConfigs
    /\ concurrency = MaxParallelThreads(configured)
    /\ exportCsv \in BOOLEAN
    /\ items = <<>>
    /\ SchedIdle
    /\ WorkIdle
    /\ SinceIdle
    /\ SaveIdle
    /\ rpc = "group"
    /\ plan \in Plans
    /\ group = 1
    /\ source = 0
    /\ visited = <<>>
    /\ exports = <<>>
    /\ EtaIdle
    /\ MdIdle

NextRun ==
    \/ GroupStart /\ UNCHANGED <<pacerVars, threadVars, commentVars, etaVars, mdVars>>
    \/ SourceStart /\ UNCHANGED <<pacerVars, threadVars, commentVars, etaVars, mdVars>>
    \/ (\E actual \in 0 .. MaxCount : ListingReturned(actual))
           /\ UNCHANGED <<pacerVars, threadVars, commentVars, etaVars, mdVars>>
    \/ SchedCall
           /\ UNCHANGED <<pacerVars, threadVars, commentVars, runVars, etaVars,
                        mdVars>>
    \/ (\E i \in 1 .. MaxCount, cs \in CommentLists : MapperFetched(i, cs))
           /\ UNCHANGED <<pacerVars, threadVars, commentVars, runVars, etaVars,
                        mdVars>>
    \/ (\E i \in 1 .. MaxCount : MapperWritten(i))
           /\ UNCHANGED <<pacerVars, threadVars, commentVars, runVars, etaVars,
                        mdVars>>
    \/ (\E i \in 1 .. MaxCount : MapperFailed(i))
           /\ UNCHANGED <<pacerVars, threadVars, commentVars, runVars, etaVars,
                        mdVars>>
    \/ ExportPosts
           /\ UNCHANGED <<pacerVars, threadVars, commentVars, runVars, etaVars,
                        mdVars>>
    \/ SourceDone /\ UNCHANGED <<pacerVars, threadVars, commentVars, etaVars, mdVars>>
    \/ GroupExport /\ UNCHANGED <<pacerVars, threadVars, commentVars, etaVars, mdVars>>

SpecRun == InitRun /\ [][NextRun]_vars

\* every pending call returns or fails in the end, and main takes its steps
\* (runs with the default maxParallelThreads)
InitRunFair == InitRun /\ configured = Absent

SpecRunFair == InitRunFair /\ [][NextRun]_vars /\ WF_vars(NextRun)

\* the run of one group with its autosave timer, and SIGINT
SavePlans == {<<[k \in 1 .. ns |-> 1]>> : ns \in 1 .. MaxGroupSources}

InitSave ==
    /\ opts \in {o \in ThreadsOptions : o.impl = "quota"}
    /\ url = [path |-> "comments", limit |-> 0, after |-> NoCursor]
    /\ PacerIdle
    /\ count = 0
    /\ ThreadsIdle
    /\ CommentsIdle
    /\ configured = Absent
    /\ concurrency = MaxParallelThreads(configured)
    /\ exportCsv \in BOOLEAN
    /\ items = <<>>
    /\ SchedIdle
    /\ WorkIdle
    /\ SinceIdle
    /\ SaveIdle
    /\ rpc = "group"
    /\ plan \in SavePlans
    /\ group = 1
    /\ source = 0
    /\ visited = <<>>
    /\ exports = <<>>
    /\ EtaIdle
    /\ MdIdle

NextSave ==
    \/ NextRun
    \/ AutosaveTick /\ UNCHANGED <<pacerVars, threadVars, commentVars, etaVars, mdVars>>
    \/ AutosaveJsonWritten
           /\ UNCHANGED <<pacerVars, threadVars, commentVars, etaVars, mdVars>>
    \/ AutosaveThreadsWritten
           /\ UNCHANGED <<pacerVars, threadVars, commentVars, etaVars, mdVars>>
    \/ AutosaveCommentsWritten
           /\ UNCHANGED <<pacerVars, threadVars, commentVars, etaVars, mdVars>>
    \/ AutosaveFailed
           /\ UNCHANGED <<pacerVars, threadVars, commentVars, etaVars, mdVars>>
    \/ Interrupt /\ UNCHANGED <<pacerVars, threadVars, commentVars, etaVars, mdVars>>

SpecSave == InitSave /\ [][NextSave]_vars

\* a run whose writes to the CSV files all succeed
NextTotals ==
    \/ GroupStart /\ UNCHANGED <<pacerVars, threadVars, commentVars, etaVars, mdVars>>
    \/ SourceStart /\ UNCHANGED <<pacerVars, threadVars, commentVars, etaVars, mdVars>>
    \/ (\E actual \in 0 .. MaxCount : ListingReturned(actual))
           /\ UNCHANGED <<pacerVars, threadVars, commentVars, etaVars, mdVars>>
    \/ SchedCall
           /\ UNCHANGED <<pacerVars, threadVars, commentVars, runVars, etaVars,
                        mdVars>>
    \/ (\E i \in 1 .. MaxCount, cs \in CommentLists : MapperFetched(i, cs))
           /\ UNCHANGED <<pacerVars, threadVars, commentVars, runVars, etaVars,
                        mdVars>>
    \/ (\E i \in 1 .. MaxCount : MapperWritten(i))
           /\ UNCHANGED <<pacerVars, threadVars, commentVars, runVars, etaVars,
                        mdVars>>
    \/ ExportPosts
           /\ UNCHANGED <<pacerVars, threadVars, commentVars, runVars, etaVars,
                        mdVars>>
    \/ SourceDone /\ UNCHANGED <<pacerVars, threadVars, commentVars, etaVars, mdVars>>
    \/ GroupExport /\ UNCHANGED <<pacerVars, threadVars, commentVars, etaVars, mdVars>>

SpecTotals == InitRun /\ [][NextTotals]_vars

\* a run of one subreddit with an earlier run detected (last_run.json
\* holds lastRun > 0), the operator taking only what is new or not; the
\* listing and the reply fetches return records that carry no timestamp,
\* the timestamp of the last run, or the one after it
Stamped(r, t) == [hasData |-> r.hasData, id |-> r.id, name |-> r.name,
                  time |-> t]
Stamps == {0, lastRunTimestamp, lastRunTimestamp + 1}
StampedListings(n) ==
    {[i \in 1 .. n |-> IF f[i] = 0 THEN WireEntry(i)
                                   ELSE Stamped(WireEntry(i), f[i])] :
        f \in [1 .. n -> Stamps]}
\* a reply fetch returns no record, or one record
StampedComments ==
    {<<>>, <<[id |-> 1]>>}
    \cup {<<[id |-> 1, time |-> t]>> : t \in Stamps \ {0}}

InitSince ==
    /\ opts \in {o \in ThreadsOptions : o.impl = "quota"}
    /\ url = [path |-> "comments", limit |-> 0, after |-> NoCursor]
    /\ PacerIdle
    /\ count = 0
    /\ ThreadsIdle
    /\ CommentsIdle
    /\ configured = Absent
    /\ concurrency = MaxParallelThreads(configured)
    /\ exportCsv \in BOOLEAN
    /\ items = <<>>
    /\ SchedIdle
    /\ WorkIdle
    /\ lastRunTimestamp \in 1 .. MaxStamp
    /\ useSinceDate \in BOOLEAN
    /\ listed = <<>>
    /\ returnedReplies = 0
    /\ SaveIdle
    /\ rpc = "group"
    /\ plan = <<<<MaxBatch>>>>
    /\ group = 1
    /\ source = 0
    /\ visited = <<>>
    /\ exports = <<>>
    /\ EtaIdle
    /\ MdIdle

NextSince ==
    \/ GroupStart /\ UNCHANGED <<pacerVars, threadVars, commentVars, etaVars, mdVars>>
    \/ SourceStart /\ UNCHANGED <<pacerVars, threadVars, commentVars, etaVars, mdVars>>
    \/ (\E n \in 0 .. MaxBatch :
           /\ rpc = "listing"
           /\ n <= plan[group][source]
           /\ \E listing \in StampedListings(n) : ThreadsListed(listing))
           /\ UNCHANGED <<pacerVars, threadVars, commentVars, etaVars, mdVars>>
    \/ SchedCall
           /\ UNCHANGED <<pacerVars, threadVars, commentVars, runVars, etaVars,
                        mdVars>>
    \/ (\E i \in 1 .. MaxBatch, cs \in StampedComments :
           MapperFetched(i, cs))
           /\ UNCHANGED <<pacerVars, threadVars, commentVars, runVars, etaVars,
                        mdVars>>
    \/ (\E i \in 1 .. MaxBatch : MapperWritten(i))
           /\ UNCHANGED <<pacerVars, threadVars, commentVars, runVars, etaVars,
                        mdVars>>
    \/ (\E i \in 1 .. MaxBatch : MapperFailed(i))
           /\ UNCHANGED <<pacerVars, threadVars, commentVars, runVars, etaVars,
                        mdVars>>
    \/ ExportPosts
           /\ UNCHANGED <<pacerVars, threadVars, commentVars, runVars, etaVars,
                        mdVars>>
    \/ SourceDone /\ UNCHANGED <<pacerVars, threadVars, commentVars, etaVars, mdVars>>
    \/ GroupExport /\ UNCHANGED <<pacerVars, threadVars, commentVars, etaVars, mdVars>>

SpecSince == InitSince /\ [][NextSince]_vars

\* a run long enough to fill both windows of durations: one group of many
\* subreddits, no export to csv, every listing complete and every thread
\* without replies, the reply batches completing in any order
InitWindows ==
    /\ opts \in {o \in ThreadsOptions : o.impl = "quota"}
    /\ url = [path |-> "comments", limit |-> 0, after |-> NoCursor]
    /\ PacerIdle
    /\ count = 0
    /\ ThreadsIdle
    /\ CommentsIdle
    /\ configured \in MaxParallelConfigs
    /\ concurrency = MaxParallelThreads(configured)
    /\ exportCsv = FALSE
    /\ items = <<>>
    /\ SchedIdle
    /\ WorkIdle
    /\ SinceIdle
    /\ SaveIdle
    /\ rpc = "group"
    /\ plan \in {<<[k \in 1 .. ns |-> MaxBatch]>> : ns \in 1 .. MaxSources}
    /\ group = 1
    /\ source = 0
    /\ visited = <<>>
    /\ exports = <<>>
    /\ EtaIdle
    /\ MdIdle

NextWindows ==
    \/ GroupStart /\ UNCHANGED <<pacerVars, threadVars, commentVars, etaVars, mdVars>>
    \/ SourceStart /\ UNCHANGED <<pacerVars, threadVars, commentVars, etaVars, mdVars>>
    \/ ListingReturned(MaxBatch)
           /\ UNCHANGED <<pacerVars, threadVars, commentVars, etaVars, mdVars>>
    \/ SchedCall
           /\ UNCHANGED <<pacerVars, threadVars, commentVars, runVars, etaVars,
                        mdVars>>
    \/ (\E i \in 1 .. MaxBatch : MapperFetched(i, <<>>))
           /\ UNCHANGED <<pacerVars, threadVars, commentVars, runVars, etaVars,
                        mdVars>>
    \/ ExportPosts
           /\ UNCHANGED <<pacerVars, threadVars, commentVars, runVars, etaVars,
                        mdVars>>
    \/ SourceDone /\ UNCHANGED <<pacerVars, threadVars, commentVars, etaVars, mdVars>>
    \/ GroupExport /\ UNCHANGED <<pacerVars, threadVars, commentVars, etaVars, mdVars>>

SpecWindows == InitWindows /\ [][NextWindows]_vars

\* one call of calculateEta
EtaArgs ==
    [elapsedMs : {500 * k : k \in 0 .. MaxElapsed},
     completed : -1 .. MaxCounter,
     total : -1 .. MaxCounter]

InitEta ==
    /\ opts \in {o \in ThreadsOptions : o.impl = "quota"}
    /\ url = [path |-> "comments", limit |-> 0, after |-> NoCursor]
    /\ PacerIdle
    /\ count = 0
    /\ ThreadsIdle
    /\ CommentsIdle
    /\ SchedUnused
    /\ WorkIdle
    /\ SinceIdle
    /\ SaveIdle
    /\ RunIdle
    /\ etaArgs \in EtaArgs
    /\ etaResult = NoEta
    /\ MdIdle

NextEta ==
    EtaCall /\ UNCHANGED <<pacerVars, threadVars, commentVars, schedVars,
                           workVars, sinceVars, saveVars, runVars, mdVars>>

SpecEta == InitEta /\ [][NextEta]_vars

----------------------------------------------------------------------------
(* Properties of fetchWithRateLimit (SpecPacer) *)

\* number of 429 responses the invocation has received
Throttled == Cardinality({i \in 1 .. Len(statuses) : statuses[i] = TooManyRequests})

BackoffWaits == SelectSeq(waits, LAMBDA w : w.kind = "backoff")
PacingWaits  == SelectSeq(waits, LAMBDA w : w.kind = "pacing")

\* a non-throttled response has been received and is being, or was, paced
Paced == pc \in {"pacing", "returned"}
\* the pacing delay: the timer armed for it, once fired the wait performed
PacingDelay == IF pc = "returned" THEN waits[Len(waits)].ms ELSE throttle

RemainingIs(x) == response.remaining.kind = "num" /\ response.remaining.v = x
RemainingPresent == response.remaining.kind = "num"
ResetPresent == response.reset.kind = "num"

\* C1: fetchWithRateLimit never hands a throttled response to its caller:
\* when it has returned, the result is the last response received and its
\* status is not 429; every transport call carries the url and options of
\* the invocation; a 429 response is always followed by a backoff wait, and
\* that wait by a re-issue of the same call (or, the retries being used up,
\* by the quota-exhausted failure), never by a return.
C1_NeverReturnsThrottled ==
    /\ [](pc = "returned" =>
            /\ result = response
            /\ result.status # TooManyRequests
            /\ statuses[Len(statuses)] = result.status)
    /\ [](\A i \in 1 .. Len(calls) : calls[i] = url)
    /\ [][/\ (pc = "fetching" /\ Len(statuses') > Len(statuses)
                /\ statuses'[Len(statuses')] = TooManyRequests)
              => (pc' = "backoff" /\ result' = NoResponse)
          /\ pc = "backoff"
              => /\ waits' = Append(waits, [kind |-> "backoff",
                                             ms |-> BackoffWait(delay)])
                 /\ \/ pc' = "fetching" /\ calls' = Append(calls, url)
                    \/ pc' = "failed" /\ err' = "QuotaExhausted"
                       /\ calls' = calls]_vars

\* a response is returned after one throttled response and a retry
C1_Witness ==
    /\ pc = "returned"
    /\ statuses = <<TooManyRequests, 200>>
    /\ calls = <<url, url>>

\* C2 (as stated): once maxRetries 429 responses have been received the
\* invocation issues no further transport call.
C2_FailsAfterMaxRetries ==
    (opts.maxRetries >= 1 /\ Throttled >= opts.maxRetries) => pc # "fetching"

\* C2 (amended): the invocation fails with the quota-exhausted error exactly
\* when it has received maxRetries + 1 consecutive 429 responses: after the
\* (maxRetries + 1)-th it performs its backoff wait and throws, and it
\* has made maxRetries + 1 transport calls and makes no further one.
C2_FailsAfterMaxRetriesPlusOne ==
    /\ [](Throttled >= opts.maxRetries + 1 =>
            /\ Throttled = opts.maxRetries + 1
            /\ pc \in {"backoff", "failed"}
            /\ Len(calls) = opts.maxRetries + 1
            /\ (pc = "failed" => err = "QuotaExhausted"))
    /\ [](err = "QuotaExhausted" =>
            /\ pc = "failed"
            /\ Throttled = opts.maxRetries + 1
            /\ Throttled = Len(statuses))
    /\ [][(pc = "backoff" /\ Throttled = opts.maxRetries + 1)
            => (pc' = "failed" /\ err' = "QuotaExhausted" /\ calls' = calls)]_vars

C2_Witness ==
    /\ pc = "failed"
    /\ err = "QuotaExhausted"
    /\ opts.maxRetries = 2
    /\ statuses = <<TooManyRequests, TooManyRequests, TooManyRequests>>

\* C3 (as stated): the k-th backoff wait of an invocation is
\* baseDelay * 2^(k-1); with baseDelay = 2000 and maxRetries = 3 an
\* invocation that fails with the quota-exhausted error has received four
\* 429 responses and waited exactly 2000, 4000, 8000 ms.
C3_BackoffSequence ==
    /\ \A k \in 1 .. Len(BackoffWaits) :
          BackoffWaits[k].ms = opts.baseDelay * Pow2(k - 1)
    /\ (opts.baseDelay = 2000 /\ opts.maxRetries = 3 /\ err = "QuotaExhausted")
          => /\ Throttled = 4
             /\ [k \in 1 .. Len(BackoffWaits) |-> BackoffWaits[k].ms]
                   = <<2000, 4000, 8000>>

\* C4: a non-throttled response, whatever its status, is returned only after
\* a wait of the pacing delay computed from that same response: the return
\* step is the firing of that timer, the wait is the last one performed, and
\* it is the only pacing wait of the invocation; no pacing wait is performed
\* by an invocation that has not returned.
C4_PacedBeforeReturn ==
    /\ [](pc = "returned" =>
            /\ Len(waits) >= 1
            /\ waits[Len(waits)] =
                 [kind |-> "pacing", ms |-> ComputeThrottle(result, opts)]
            /\ Len(PacingWaits) = 1)
    /\ [](pc # "returned" => Len(PacingWaits) = 0)
    /\ [][pc' = "returned" => (pc \in {"pacing", "returned"}
                               /\ response' = response)]_vars

\* a non-success response is returned after a retry, paced by its own headers
C4_Witness ==
    /\ pc = "returned"
    /\ result.status = 404
    /\ Len(waits) = 2
    /\ opts.impl = "quota"
    /\ RemainingIs(5 * Scale) /\ ResetPresent
    /\ waits[2].ms > opts.minDelay

\* C5: with both quota headers present and remaining >= 10 the pacing delay
\* is max(minDelay, ceil(reset * 1000 / remaining)); remaining = 50,
\* reset = 10, minDelay = 1000 gives 1000.  (ceil(n / d) is the least c with
\* c * d >= n.)
C5_DynamicDelay ==
    (opts.impl = "quota" /\ Paced /\ RemainingPresent /\ ResetPresent
       /\ response.remaining.v >= 10 * Scale)
    => LET num == response.reset.v * 1000
           den == response.remaining.v
           d   == PacingDelay
       IN  /\ d >= opts.minDelay
           /\ d * den >= num
           /\ (d = opts.minDelay \/ (d - 1) * den < num)
           /\ (den = 50 * Scale /\ num = 10 * Scale * 1000
                 /\ opts.minDelay = 1000) => d = 1000

\* remaining = 30, reset = 10, minDelay = 200: ceil(10000 / 30) = 334
C5_Witness ==
    /\ opts.impl = "quota"
    /\ pc = "returned"
    /\ RemainingIs(30 * Scale)
    /\ response.reset = NumHeader(10 * Scale)
    /\ opts.minDelay = 200
    /\ PacingDelay = 334

\* C6 (as stated): with remaining = 2 the pacing delay is at least 10000 ms
\* whatever resetSeconds is, absent included.
C6_CriticalFloor ==
    (opts.impl = "quota" /\ Paced /\ RemainingIs(2 * Scale))
    => PacingDelay >= CriticalDelay

\* C6 (amended): with remaining = 2 and resetSeconds present (any number)
\* the pacing delay is at least 10000 ms; with resetSeconds absent it is
\* highDelay.
C6_CriticalFloorWhenResetPresent ==
    (opts.impl = "quota" /\ Paced /\ RemainingIs(2 * Scale))
    => IF ResetPresent
       THEN PacingDelay >= CriticalDelay
       ELSE PacingDelay = opts.highDelay

\* remaining = 2 with a negative reset: the formula gives minDelay, the floor
\* lifts it to 10000
C6_Witness ==
    /\ opts.impl = "quota"
    /\ pc = "returned"
    /\ RemainingIs(2 * Scale)
    /\ response.reset = NumHeader(-1 * Scale)
    /\ PacingDelay = CriticalDelay

\* C7 (as stated): with both quota headers present and 0 < remaining < 10
\* the pacing delay is at least highDelay, for all minDelay and highDelay.
C7_HighDelayFloor ==
    (opts.impl = "quota" /\ Paced /\ RemainingPresent /\ ResetPresent
       /\ response.remaining.v > 0 /\ response.remaining.v < 10 * Scale)
    => PacingDelay >= opts.highDelay

\* C8: without a remaining value the pacing delay is minDelay; with
\* remaining present and resetSeconds absent it is highDelay when
\* remaining < 10 and minDelay when remaining >= 10.
C8_FallbackDelay ==
    Paced =>
       /\ ~RemainingPresent => PacingDelay = opts.minDelay
       /\ (RemainingPresent /\ ~ResetPresent) =>
             PacingDelay = IF response.remaining.v < 10 * Scale
                           THEN opts.highDelay
                           ELSE opts.minDelay

\* no remaining header although reset is present: minDelay
C8_Witness ==
    /\ pc = "returned"
    /\ response.remaining = NullHeader
    /\ ResetPresent
    /\ opts.highDelay # opts.minDelay
    /\ PacingDelay = opts.minDelay

\* C9 (as stated): both headers present and remaining = 0: the pacing delay
\* is minDelay.
C9_ZeroRemainingMinDelay ==
    (Paced /\ RemainingIs(0) /\ ResetPresent) => PacingDelay = opts.minDelay

\* C9 (amended): both headers present and remaining = 0: the pacing delay is
\* highDelay (the 'remaining < 10' fallback applies whether or not
\* resetSeconds is present).
C9_ZeroRemainingHighDelay ==
    (Paced /\ RemainingIs(0) /\ ResetPresent) => PacingDelay = opts.highDelay

C9_Witness ==
    /\ opts.impl = "quota"
    /\ pc = "returned"
    /\ RemainingIs(0)
    /\ ResetPresent
    /\ PacingDelay = opts.highDelay
    /\ opts.highDelay # opts.minDelay

----------------------------------------------------------------------------
(* Properties of fetchAllThreads (SpecThreads) *)

\* C10: fetchAllThreads never holds more than count items, whatever the
\* lengths of the pages (longer than the limit included): its items are the
\* first wire entries received, in the order received, and when the entries
\* received reach or pass count (each with its data) exactly count are kept.
C10_NeverMoreThanCount ==
    /\ Len(threads) <= count
    /\ Len(threads) <= Len(received)
    /\ \A i \in 1 .. Len(threads) :
          received[i].hasData /\ threads[i] = received[i].id
    /\ (\A i \in 1 .. Min(count, Len(received)) : received[i].hasData)
          => Len(threads) = Min(count, Len(received))

\* the third page of a 250-item fetch overshoots its limit and is cut at 250
C10_Witness ==
    /\ tpc = "done"
    /\ count = 2 * PageLimit + 50
    /\ Len(requests) = 3
    /\ Len(received) > count
    /\ Len(threads) = count

\* the entries of the page received in this step
NewEntries == SubSeq(received', Len(received) + 1, Len(received'))
PageReceived == Len(pageLens') = Len(pageLens) + 1

\* every page received so far was full: as many entries as requested, each
\* with its data
AllPagesFull ==
    /\ Len(pageLens) = Len(requests)
    /\ \A i \in 1 .. Len(pageLens) : pageLens[i] = requests[i].limit
    /\ \A i \in 1 .. Len(received) : received[i].hasData

\* C11: every page request asks for min(100, count - fetched) entries; when
\* every page comes back full the requests number ceil(count / 100) and
\* exactly count items are returned (count = 250: limits 100, 100, 50).
C11_PageLimits ==
    /\ tpc = "awaitPage" =>
          /\ limit = Min(PageLimit, count - fetched)
          /\ requests[Len(requests)].limit = limit
          /\ limit >= 1
    /\ (tpc = "done" /\ AllPagesFull) =>
          /\ Len(requests) * PageLimit >= count
          /\ (Len(requests) - 1) * PageLimit < count \/ count = 0
          /\ Len(threads) = count
          /\ count = 250 =>
                [i \in 1 .. Len(requests) |-> requests[i].limit]
                   = <<100, 100, 50>>

C11_Witness ==
    /\ tpc = "done"
    /\ count = 250
    /\ pageLens = <<100, 100, 50>>
    /\ Len(threads) = 250

\* C12: a page with fewer entries than the limit requested (zero included)
\* ends the fetch: no further request is issued and the items accumulated,
\* that page's entries included, are returned, also short of count.
C12_ShortPageStops ==
    [][(PageReceived /\ pageLens'[Len(pageLens')] < limit
          /\ \A i \in 1 .. Len(NewEntries) : NewEntries[i].hasData)
       => /\ tpc' = "done"
          /\ requests' = requests
          /\ threads' = threads \o
                [i \in 1 .. Len(NewEntries) |-> NewEntries[i].id]]_vars

C12_Witness ==
    /\ tpc = "done"
    /\ count = 250
    /\ pageLens = <<100, 99>>
    /\ Len(requests) = 2
    /\ Len(threads) = 199

\* C13: when a page request fails (the transport rejects, the status is not
\* OK, or fetchWithRateLimit gives up on 429s) fetchAllThreads does not
\* raise: it issues no further request and returns the items accumulated
\* from the pages before.
C13_FailedPageReturnsSoFar ==
    /\ [](tpc \in {"idle", "awaitPage", "done"})
    /\ [][(tpc = "awaitPage"
             /\ (pc = "failed" \/ (pc = "returned" /\ ~Ok(result))))
          => /\ tpc' = "done"
             /\ threads' = threads
             /\ requests' = requests]_vars

\* the second page request exhausts its retries after a full first page
C13_Witness ==
    /\ tpc = "done"
    /\ err = "QuotaExhausted"
    /\ Len(requests) = 2
    /\ Len(threads) = PageLimit

----------------------------------------------------------------------------
(* Properties of fetchAllComments and of the comment tree (SpecComments) *)

\* the nodes from the top listing down to node i
RECURSIVE PathTo(_, _)
PathTo(w, i) ==
    IF w.parent[i] = 0 THEN <<i>> ELSE Append(PathTo(w, w.parent[i]), i)

\* the wire nodes of kind t1 all of whose ancestors are of kind t1
Accepted(w) ==
    {i \in 1 .. w.n :
        \A k \in 1 .. Len(PathTo(w, i)) :
            /\ w.hasData[PathTo(w, i)[k]]
            /\ w.kind[PathTo(w, i)[k]] = "t1"}

\* node a comes before node b in the depth-first pre-order of the tree: a is
\* an ancestor of b, or where their paths part a's branch is the earlier one
PreOrderBefore(w, a, b) ==
    LET p == PathTo(w, a)
        q == PathTo(w, b)
    IN  \E k \in 1 .. Len(q) :
            /\ \A j \in 1 .. (k - 1) : j <= Len(p) /\ p[j] = q[j]
            /\ k <= Len(p) => p[k] < q[k]

\* C14: fetchAllComments emits exactly one record per wire node of kind t1
\* that is reachable through ancestors of kind t1, in the depth-first
\* pre-order of the wire tree; placeholders and other nodes (and what hangs
\* below them) give no record.
C14_PreOrderFlatten ==
    (cpc \in {"done", "built"} /\ wire.body = "tree")
    => /\ \A i \in Accepted(wire) :
              Cardinality({k \in 1 .. Len(comments) : comments[k].id = i}) = 1
       /\ \A k \in 1 .. Len(comments) : comments[k].id \in Accepted(wire)
       /\ \A k, l \in 1 .. Len(comments) :
              k < l => PreOrderBefore(wire, comments[k].id, comments[l].id)

\* replies 1 and 2 at the top, reply 3 under reply 1; node 2 is a
\* placeholder
C14_Witness ==
    /\ cpc = "done"
    /\ wire.body = "tree"
    /\ wire.n = 3
    /\ wire.parent = <<0, 0, 1>>
    /\ wire.kind = <<"t1", "more", "t1">>
    /\ wire.hasData = <<TRUE, TRUE, TRUE>>
    /\ comments = <<[id |-> 1], [id |-> 3]>>

\* C15: when the request of the reply tree fails (the transport rejects, the
\* status is not OK, or fetchWithRateLimit gives up on 429s)
\* fetchAllComments does not raise and returns an empty sequence.
C15_FailedTreeRequestReturnsEmpty ==
    /\ [](cpc \in {"idle", "awaitTree", "done", "built"})
    /\ [][(cpc = "awaitTree"
             /\ (pc = "failed" \/ (pc = "returned" /\ ~Ok(result))))
          => /\ cpc' = "done"
             /\ comments' = <<>>]_vars

\* the request exhausted its retries
C15_Witness ==
    /\ cpc = "done"
    /\ err = "QuotaExhausted"
    /\ comments = <<>>

\* object x is an element of the replies array of object o
InReplies(f, o, x) ==
    \E k \in 1 .. Len(f.replies[o]) : f.replies[o][k] = x
InTop(f, x) == \E k \in 1 .. Len(f.top) : f.top[k] = x

\* the object made from the record of wire node i
ObjectOfNode(i) == CHOOSE k \in 1 .. Len(comments) : comments[k].id = i

\* C16: parent linkage survives fetch, flatten and rebuild: an accepted
\* reply nested under another accepted reply on the wire is, in the forest
\* main builds, a child of that reply's node and not a top-level node.
C16_LinkageSurvives ==
    (cpc = "built" /\ wire.body = "tree")
    => \A c \in Accepted(wire) :
           wire.parent[c] # 0
           => /\ InReplies(forest, ObjectOfNode(wire.parent[c]),
                           ObjectOfNode(c))
              /\ ~InTop(forest, ObjectOfNode(c))

----------------------------------------------------------------------------
(* Properties of main's pMap call (SpecSched) *)

\* C17: at no instant are more mappers in flight than the configured
\* maxParallelThreads, or than 5 when none is configured.
C17_AtMostConcurrencyInFlight ==
    Cardinality({i \in 1 .. Len(stage) :
                    stage[i] \in {"fetching", "writing"}})
    <= IF configured = Absent THEN DefaultMaxParallelThreads ELSE configured

\* concurrency 2 over 5 items: two in flight, one done, two waiting
C17_Witness ==
    /\ configured = 2
    /\ Len(items) = 5
    /\ Cardinality({i \in 1 .. Len(stage) :
                       stage[i] \in {"fetching", "writing"}}) = 2
    /\ stage[1] = "returned"
    /\ stage[5] = "pending"

\* C18: the result of pMap has one entry per thread, entry i being that of
\* thread i, whatever the order in which the mappers finish; the posts are
\* exported in the order of the listing.
C18_ResultsInInputOrder ==
    /\ spc # "idle"
       => /\ Len(results) = Len(items)
          /\ \A i \in 1 .. Len(items) :
                 stage[i] \in {"returned", "caught"}
                 => results[i].thread = items[i]
    /\ spc \in {"resolved", "exported"}
       => \A i \in 1 .. Len(items) : stage[i] \in {"returned", "caught"}
    /\ spc = "exported"
       => posts = [i \in 1 .. Len(items) |-> items[i].id]

\* the mappers of threads 2 and 3 finished before that of thread 1
C18_Witness ==
    /\ spc = "running"
    /\ Len(items) >= 3
    /\ stage[1] = "fetching"
    /\ stage[2] = "returned"
    /\ stage[3] = "returned"
    /\ results[2].thread = items[2]
    /\ results[3].thread = items[3]

\* C19: when the work of a mapper fails, the result of its thread is an
\* empty comment list; no other mapper is cancelled and no other result
\* changes, and pMap resolves with a result for every thread.
C19_FailedItemYieldsEmpty ==
    /\ [](/\ spc \in {"idle", "running", "resolved", "exported"}
          /\ \A i \in 1 .. Len(stage) :
                 stage[i] = "caught"
                 => results[i] = [thread |-> items[i], comments |-> <<>>]
          /\ spc \in {"resolved", "exported"}
             => /\ Len(results) = Len(items)
                /\ \A i \in 1 .. Len(items) : results[i].thread = items[i])
    /\ [][\A i \in 1 .. Len(stage) :
             (stage[i] # "caught" /\ stage'[i] = "caught")
             => \A j \in 1 .. Len(stage) \ {i} :
                    /\ results'[j] = results[j]
                    /\ \/ stage'[j] = stage[j]
                       \/ stage[j] = "pending" /\ stage'[j] = "fetching"]_vars

\* the mapper of thread 1 failed, that of thread 2 returned its comments
C19_Witness ==
    /\ spc = "resolved"
    /\ Len(items) >= 2
    /\ stage[1] = "caught"
    /\ results[1].comments = <<>>
    /\ stage[2] = "returned"
    /\ Len(results[2].comments) > 0

----------------------------------------------------------------------------
(* Properties of main's tree build (SpecTree) *)

\* the objects reachable from topLevelComments through replies arrays
RECURSIVE ReachFrom(_, _, _)
ReachFrom(f, S, k) ==
    IF k = 0 THEN S
    ELSE ReachFrom(f, S \cup {x \in 1 .. Len(f.replies) :
                                 \E o \in S : InReplies(f, o, x)}, k - 1)
Reachable(f) ==
    ReachFrom(f, {x \in 1 .. Len(f.replies) : InTop(f, x)}, Len(f.replies))

\* how many times object x sits in a list of the forest that can be reached
\* from topLevelComments
Places(f, x) ==
    Cardinality({k \in 1 .. Len(f.top) : f.top[k] = x})
    + Cardinality({ok \in Reachable(f) \X (1 .. Len(f.replies)) :
                      /\ ok[2] <= Len(f.replies[ok[1]])
                      /\ f.replies[ok[1]][ok[2]] = x})

Names(x, y) ==
    /\ comments[x].parent_id # Absent
    /\ comments[x].parent_id = comments[y].id

\* C21: after the tree build a record whose parent_id is the id of a record
\* of the same input, before or after it, is a child of that record's node
\* and of no other, and is not top-level; every other record is a
\* top-level node, child of no node, whose parent is the thread id.  (Ids
\* being distinct, the object of a record is named by its position.)
C21_ParentLinkage ==
    cpc = "built"
    => \A x \in 1 .. Len(comments) :
           IF \E y \in 1 .. Len(comments) : Names(x, y)
           THEN /\ ~InTop(forest, x)
                /\ \A y \in 1 .. Len(comments) :
                       InReplies(forest, y, x) <=> Names(x, y)
                /\ forest.parent_id[x] = [t1 |-> comments[x].parent_id]
           ELSE /\ InTop(forest, x)
                /\ \A y \in 1 .. Len(comments) : ~InReplies(forest, y, x)
                /\ forest.parent_id[x] = [t3 |-> TheThread.id]

\* five records, the first naming the third (after it) and the last naming
\* the second (before it): three top-level nodes, five nodes overall
C21_Witness ==
    /\ cpc = "built"
    /\ comments = <<[id |-> 5, parent_id |-> 3], [id |-> 4, parent_id |-> Absent],
                    [id |-> 3, parent_id |-> Absent],
                    [id |-> 2, parent_id |-> Absent], [id |-> 1, parent_id |-> 4]>>
    /\ forest.top = <<2, 3, 4>>
    /\ forest.replies = <<<<>>, <<5>>, <<1>>, <<>>, <<>>>>
    /\ Cardinality(Reachable(forest)) = 5

\* the objects of list appear in the order of their records in the input
InInputOrder(list) ==
    \A k, l \in 1 .. Len(list) : k < l => list[k] < list[l]

\* C22: in topLevelComments and in every replies array the nodes appear in
\* the relative order of their records in the input; siblings are never
\* reordered.
C22_SiblingsInInputOrder ==
    cpc = "built"
    => /\ InInputOrder(forest.top)
       /\ \A o \in 1 .. Len(forest.replies) : InInputOrder(forest.replies[o])

\* two top-level nodes, the first with two children
C22_Witness ==
    /\ cpc = "built"
    /\ Len(comments) = 4
    /\ forest.top = <<1, 4>>
    /\ forest.replies[1] = <<2, 3>>

----------------------------------------------------------------------------
(* Malformed listing pages (SpecThreads) *)

\* C30: a listing page with an entry that lacks its data object adds no
\* thread to the result of fetchAllThreads, and the call returns.
C30_MalformedPageContributesNothing ==
    [][(PageReceived
          /\ \E i \in 1 .. Len(NewEntries) : ~NewEntries[i].hasData)
       => /\ threads' = threads
          /\ tpc' = "done"]_vars

\* C23: after the listing of a subreddit returns actual threads for a
\* count of requested, totalWork is reduced by requested - actual when
\* actual < requested, and is unchanged otherwise.
C23_ShortfallTakenOffTotalWork ==
    [][rpc = "listing" /\ rpc' = "mapping" =>
          LET requested == plan[group][source]
              actual    == Len(items')
          IN  totalWork' = IF actual < requested
                           THEN totalWork - (requested - actual)
                           ELSE totalWork]_vars

\* a group of two subreddits (totalWork starts at their sum), the listing
\* of the first of which came back short by its whole count
C23_Witness ==
    /\ rpc = "mapping"
    /\ spc = "idle"
    /\ source = 1
    /\ Len(plan[group]) = 2
    /\ Len(items) < plan[group][source]
    /\ totalWork = plan[group][2]

\* C24: each completed reply batch of n replies adds exactly n to
\* totalWork: when the mapper of a thread returns, totalWork has grown by
\* the number of replies fetched for the thread.
C24_BatchAddsItsReplies ==
    [][\A i \in 1 .. Len(stage) :
          (stage[i] \in {"fetching", "writing"}
              /\ stage'[i] \in {"returned", "caught"})
          => totalWork' = totalWork + Len(fetchedOf'[i])]_vars

\* C25: whenever the status line is rendered, the percentage it displays is
\* at most 100.
C25_PercentAtMost100 ==
    (shown.rendered /\ shown.finite) => shown.pct <= 100

\* C27: the window of thread durations holds at most 5 entries and the
\* window of reply-batch durations at most 10, each holding the most recent
\* durations in arrival order.
LastArrivals(n, window) ==
    [k \in 1 .. (IF n < window THEN n ELSE window) |->
        (IF n < window THEN 0 ELSE n - window) + k]

C27_WindowsHoldMostRecent ==
    /\ Len(threadTimes) <= 5
    /\ Len(commentTimes) <= 10
    /\ threadTimes = LastArrivals(timed.threads, 5)
    /\ commentTimes = LastArrivals(timed.comments, 10)

\* the sixth listing and the eleventh reply batch have evicted the first
\* duration of each window
C27_Witness ==
    /\ threadTimes = <<2, 3, 4, 5, 6>>
    /\ commentTimes = <<2, 3, 4, 5, 6, 7, 8, 9, 10, 11>>

\* C28: when the run of a group starts, totalProcessed is 0, both windows
\* of durations are empty and totalWork is the sum of the counts of the
\* subreddits of the group, whatever the state the group before left.
C28_StateResetPerGroup ==
    [][rpc = "group" =>
          /\ totalProcessed' = 0
          /\ threadTimes' = <<>>
          /\ commentTimes' = <<>>
          /\ totalWork' = Sum(plan[group])]_vars

\* the second group has started after a first group that recorded
\* durations and processed threads
C28_Witness ==
    /\ group = 2
    /\ rpc = "source"
    /\ source = 1
    /\ exports = <<1>>
    /\ Len(visited) = Len(plan[1])
    /\ totalProcessed = 0
    /\ threadTimes = <<>>
    /\ commentTimes = <<>>
    /\ totalWork = Sum(plan[2])

\* C29: whatever the listings and the reply fetches return (nothing, or
\* part of what was asked, after any failure), the run visits every
\* subreddit of every group in turn, reaches the export step of every group
\* and ends.
AllSources ==
    {<<g, k>> : g \in 1 .. Len(plan), k \in 1 .. MaxGroupSources}
        \cap {p \in (1 .. Len(plan)) \X (1 .. MaxGroupSources) :
                 p[2] <= Len(plan[p[1]])}

C29_RunReachesEveryExport ==
    <>(/\ rpc = "finished"
       /\ {visited[k] : k \in 1 .. Len(visited)} = AllSources
       /\ Len(visited) = Cardinality(AllSources)
       /\ exports = [g \in 1 .. Len(plan) |-> g])

\* a run of two groups of two subreddits whose listings all failed (no
\* thread at all) has ended after both exports
C29_Witness ==
    /\ rpc = "finished"
    /\ Len(plan) = 2
    /\ Len(plan[2]) = 2
    /\ Len(visited) = 4
    /\ exports = <<1, 2>>
    /\ totalWork = 0

\* C26 (as stated): calculateEta returns 0 when completed <= 0, and
\* otherwise exactly elapsed / completed * (total - completed), for total
\* below completed too.
FracEq(a, b) == a.num * b.den = b.num * a.den

C26_EtaIsUnclampedFormula ==
    etaResult # NoEta =>
        IF etaArgs.completed <= 0
        THEN FracEq(etaResult, Frac(0, 1))
        ELSE FracEq(etaResult,
                    Frac(etaArgs.elapsedMs
                             * (etaArgs.total - etaArgs.completed),
                         1000 * etaArgs.completed))

\* C26 (amended): calculateEta returns 0 when completed <= 0, and otherwise
\* elapsed / completed * max(0, total - completed): 0 when total is not
\* above completed.
C26_EtaIsClampedFormula ==
    etaResult # NoEta =>
        IF etaArgs.completed <= 0 \/ etaArgs.total <= etaArgs.completed
        THEN FracEq(etaResult, Frac(0, 1)) /\ etaResult.den # 0
        ELSE FracEq(etaResult,
                    Frac(etaArgs.elapsedMs
                             * (etaArgs.total - etaArgs.completed),
                         1000 * etaArgs.completed))

\* a call with total below completed, after some time, returned 0
C26_Witness ==
    /\ etaResult # NoEta
    /\ etaArgs.completed > 0
    /\ etaArgs.total < etaArgs.completed
    /\ etaArgs.elapsedMs > 0
    /\ etaResult.num = 0

----------------------------------------------------------------------------
(* exportGroupToMarkdown (lib/export) *)

\* the texts that make a Markdown file: mdHeader, the header of a
\* subreddit, the note that opens a later part, and the Markdown of a post
MdHeader == [kind |-> "header"]

SubredditHeader(k) == [kind |-> "subreddit", src |-> k]

SuiteNote(n) == [kind |-> "note", part |-> n]

PostMd(k, post) ==
    [kind |-> "post", src |-> k, id |-> post.id, bytes |-> post.bytes]

\* Buffer.byteLength of a text made of these pieces
RECURSIVE ByteLength(_)
ByteLength(md) ==
    IF md = <<>> THEN 0
    ELSE (IF Head(md).kind = "post" THEN Head(md).bytes ELSE mdText)
         + ByteLength(Tail(md))

\* saveCurrentMarkdown: the text md is written as the part of number n,
\* and currentMd starts again with the header and the note of the next part
SaveCurrentMarkdown(md, n, files) ==
    [mdFiles |-> Append(files, md),
     partNumber |-> n + 1,
     currentMd |-> <<MdHeader, SuiteNote(n + 1)>>]

\* one iteration of the loop over the subreddits, up to its loop over the
\* posts: a subreddit without posts is skipped; the subreddit's header is
\* added, and if the text is then over the limit, currentMd is set to the
\* header and the subreddit's header and saved
MdSubreddit ==
    /\ mdpc = "subreddit"
    /\ mdSub <= Len(mdInput)
    /\ IF mdInput[mdSub].posts = <<>>
       THEN /\ mdSub' = mdSub + 1
            /\ UNCHANGED <<mdpc, currentMd, partNumber, mdFiles, mdPost>>
       ELSE /\ LET withHeader ==
                       Append(currentMd, SubredditHeader(mdSub))
                   saved ==
                       SaveCurrentMarkdown(
                           <<MdHeader, SubredditHeader(mdSub)>>,
                           partNumber, mdFiles)
               IN  IF ByteLength(withHeader) > maxFileSizeBytes
                   THEN /\ currentMd' = saved.currentMd
                        /\ partNumber' = saved.partNumber
                        /\ mdFiles' = saved.mdFiles
                   ELSE /\ currentMd' = withHeader
                        /\ UNCHANGED <<partNumber, mdFiles>>
            /\ mdpc' = "post"
            /\ mdPost' = 1
            /\ mdSub' = mdSub
    /\ UNCHANGED <<mdInput, mdText, maxFileSizeBytes>>

\* one iteration of the loop over the posts of a subreddit: the text is
\* saved first if the post would put it over the limit and it is not just
\* the header; then the post is added
MdPost ==
    /\ mdpc = "post"
    /\ LET postMd == PostMd(mdSub, mdInput[mdSub].posts[mdPost])
           saved == SaveCurrentMarkdown(currentMd, partNumber, mdFiles)
       IN  IF /\ ByteLength(Append(currentMd, postMd)) > maxFileSizeBytes
              /\ currentMd # <<MdHeader>>
           THEN /\ currentMd' = Append(saved.currentMd, postMd)
                /\ partNumber' = saved.partNumber
                /\ mdFiles' = saved.mdFiles
           ELSE /\ currentMd' = Append(currentMd, postMd)
                /\ UNCHANGED <<partNumber, mdFiles>>
    /\ IF mdPost < Len(mdInput[mdSub].posts)
       THEN /\ mdPost' = mdPost + 1
            /\ UNCHANGED <<mdpc, mdSub>>
       ELSE /\ mdPost' = 0
            /\ mdSub' = mdSub + 1
            /\ mdpc' = "subreddit"
    /\ UNCHANGED <<mdInput, mdText, maxFileSizeBytes>>

\* after the loops: the last part is saved if currentMd is not just the
\* header, and partsCreated is returned
MdFinish ==
    /\ mdpc = "subreddit"
    /\ mdSub > Len(mdInput)
    /\ LET saved == SaveCurrentMarkdown(currentMd, partNumber, mdFiles)
       IN  IF currentMd # <<MdHeader>> /\ ByteLength(currentMd) > 0
           THEN /\ currentMd' = saved.currentMd
                /\ partNumber' = saved.partNumber
                /\ mdFiles' = saved.mdFiles
           ELSE UNCHANGED <<currentMd, partNumber, mdFiles>>
    /\ mdpc' = "done"
    /\ UNCHANGED <<mdInput, mdText, maxFileSizeBytes, mdSub, mdPost>>

\* the posts of a subreddit of the group: ids in order, each with the
\* bytes of its Markdown
MdPostLists ==
    UNION {[1 .. n -> 1 .. MaxMdBytes] : n \in 0 .. MaxCount}

MdInputs ==
    UNION {[1 .. ns -> MdPostLists] : ns \in 1 .. MaxGroupSources}

\* a call of exportGroupToMarkdown, after its declarations
InitMd ==
    /\ opts \in {o \in ThreadsOptions : o.impl = "quota"}
    /\ url = [path |-> "comments", limit |-> 0, after |-> NoCursor]
    /\ PacerIdle
    /\ count = 0
    /\ ThreadsIdle
    /\ CommentsIdle
    /\ SchedUnused
    /\ WorkIdle
    /\ SinceIdle
    /\ SaveIdle
    /\ RunIdle
    /\ EtaIdle
    /\ mdpc = "subreddit"
    /\ \E sizes \in MdInputs :
          mdInput = [k \in DOMAIN sizes |->
                        [subreddit |-> k,
                         posts |-> [i \in DOMAIN sizes[k] |->
                                       [id |-> i, bytes |-> sizes[k][i]]]]]
    /\ mdText \in 1 .. MaxMdBytes
    /\ maxFileSizeBytes \in 1 .. MaxMdLimit
    /\ currentMd = <<MdHeader>>
    /\ partNumber = 1
    /\ mdFiles = <<>>
    /\ mdSub = 1
    /\ mdPost = 0

NextMd ==
    \/ MdSubreddit /\ UNCHANGED <<pacerVars, threadVars, commentVars,
                                  schedVars, workVars, sinceVars, saveVars,
                                  runVars, etaVars>>
    \/ MdPost /\ UNCHANGED <<pacerVars, threadVars, commentVars, schedVars,
                             workVars, sinceVars, saveVars, runVars, etaVars>>
    \/ MdFinish /\ UNCHANGED <<pacerVars, threadVars, commentVars, schedVars,
                               workVars, sinceVars, saveVars, runVars,
                               etaVars>>

SpecMd == InitMd /\ [][NextMd]_vars

----------------------------------------------------------------------------
(* Properties of the retry loop and of the paging loop *)

\* C33: the backoff wait after a 429 response never exceeds 30,000 ms.
C33_BackoffAtMost30s ==
    \A i \in 1 .. Len(waits) :
        waits[i].kind = "backoff" => waits[i].ms <= 30000

\* C34: in fetchAllThreads the first page request carries no cursor, and
\* every later request carries as cursor the name of the last entry
\* accumulated so far (the last item of threads at that moment); no two
\* requests carry the same cursor.
C34_CursorIsLastAccumulated ==
    /\ [](\A k \in 1 .. Len(requests) :
            /\ requests[k].path = "new"
            /\ (k = 1 => requests[k].after = NoCursor)
            /\ \A j \in 1 .. Len(requests) :
                  requests[j].after = requests[k].after => j = k)
    /\ [][(Len(requests') > Len(requests) /\ Len(requests) > 0)
            => /\ Len(threads') > 0
               /\ requests'[Len(requests')].after =
                     [t3 |-> threads'[Len(threads')]]
               /\ requests'[Len(requests')].after # NoCursor]_vars

\* a 250-item fetch whose first page overshot its limit by one entry
C34_Witness ==
    /\ tpc = "done"
    /\ count = 2 * PageLimit + 50
    /\ Len(requests) = 3
    /\ requests[1].after = NoCursor
    /\ requests[2].after = [t3 |-> PageLimit + 1]
    /\ requests[3].after = [t3 |-> 2 * PageLimit + 1]

\* C35: one invocation of fetchWithRateLimit makes at most maxRetries + 1
\* transport calls and always ends, returning a response that is not
\* throttled or failing; it fails with the quota-exhausted error only if
\* every call it made was answered 429 (its only other failure is the
\* exception of a transport that gave no response).
PacerEnded == pc \in {"returned", "failed"}

C35_BoundedCallsAndTermination ==
    /\ [](Len(calls) <= opts.maxRetries + 1)
    /\ [](pc = "returned" => result.status # TooManyRequests)
    /\ [](pc = "failed" =>
            \/ /\ err = "QuotaExhausted"
               /\ Len(statuses) = Len(calls)
               /\ \A i \in 1 .. Len(statuses) :
                     statuses[i] = TooManyRequests
            \/ /\ err = "FetchError"
               /\ Len(statuses) = Len(calls) - 1)
    /\ <>PacerEnded

\* the last call the retries allow is answered 200
C35_Witness ==
    /\ pc = "returned"
    /\ opts.maxRetries = 2
    /\ Len(calls) = 3
    /\ statuses = <<TooManyRequests, TooManyRequests, 200>>

\* C36: fetchAllThreads ends after at most ceil(count / 100) page
\* requests: a request that is followed by another one has increased
\* fetched by at least the limit it asked for, and a count of 0 issues no
\* request.
C36_AtMostCeilRequests ==
    /\ [](Len(requests) <= Ceil(count, PageLimit))
    /\ [](count <= 0 => requests = <<>>)
    /\ [][(Len(requests') > Len(requests) /\ Len(requests) > 0)
            => fetched' >= fetched + limit]_vars
    /\ <>(tpc = "done")

\* a 250-item fetch ended after its three requests
C36_Witness ==
    /\ tpc = "done"
    /\ count = 2 * PageLimit + 50
    /\ Len(requests) = 3
    /\ fetched = count

----------------------------------------------------------------------------
(* Properties of main's counters and of incremental scraping *)

IsNew(r) == Time(r) > lastRunTimestamp
NewOf(records) == {i \in 1 .. Len(records) : IsNew(records[i])}

C32_OnlyNewerItems ==
    /\ [](useSinceDate =>
            /\ \A i \in 1 .. Len(items) : IsNew(items[i])
            /\ \A i \in 1 .. Len(stage) :
                  /\ stage[i] # "pending" => IsNew(items[i])
                  /\ \A k \in 1 .. Len(fetchedOf[i]) : IsNew(fetchedOf[i][k])
                  /\ \A k \in 1 .. Len(results[i].comments) :
                        IsNew(results[i].comments[k])
            /\ \A k \in 1 .. Len(posts) :
                  \E i \in 1 .. Len(items) : items[i].id = posts[k])
    /\ [][(useSinceDate /\ rpc = "listing" /\ rpc' = "mapping") =>
            /\ threadsProcessed' =
                  threadsProcessed + Cardinality(NewOf(listed'))
            /\ Len(items') = Cardinality(NewOf(listed'))]_vars
    /\ [][(useSinceDate /\ returnedReplies' # returnedReplies
             /\ rpc = "mapping") =>
            \E i \in 1 .. Len(stage) :
                /\ stage[i] = "fetching"
                /\ stage'[i] # "fetching"
                /\ commentsProcessed' =
                      commentsProcessed + Len(fetchedOf'[i])
                /\ totalComments' = totalComments + Len(fetchedOf'[i])]_vars

\* of two threads listed, the one that was not newer was dropped; the
\* other was kept, and its reply, not newer, was dropped
C32_Witness ==
    /\ useSinceDate
    /\ spc = "exported"
    /\ Len(listed) = 2
    /\ threadsProcessed = 1
    /\ Len(items) = 1
    /\ posts = <<items[1].id>>
    /\ returnedReplies = 1
    /\ commentsProcessed = 0

----------------------------------------------------------------------------
(* Properties of the autosave timer and of the SIGINT handler *)

\* C31 (as stated): when the run is interrupted by SIGINT, the posts
\* accumulated so far have been handed to an autosave before the process
\* exits; here with the JSON and Markdown formats, where the posts are
\* written nowhere else: every post of jsonOutput is in the autosave file.
C31_InterruptSavesResults ==
    (rpc = "exited" /\ ~exportCsv) =>
        \A k \in 1 .. Len(Flatten(jsonOutput)) :
            \E j \in 1 .. Len(autosaveJson) :
                autosaveJson[j] = Flatten(jsonOutput)[k]

\* C39 (as stated): in a tick of the autosave timer with the CSV format, the
\* rows written to the comments file are the comments of exactly the posts
\* whose rows the tick wrote to the threads file.
C39_TickFilesFromSamePosts ==
    apc = "comments" => pending = CommentRows(autosaveThreads)

----------------------------------------------------------------------------
(* Properties of exportGroupToMarkdown *)

\* the posts of a written text, as subreddit and id, in the order of the text
RECURSIVE PostsIn(_)
PostsIn(md) ==
    IF md = <<>> THEN <<>>
    ELSE (IF Head(md).kind = "post"
          THEN <<<<Head(md).src, Head(md).id>>>> ELSE <<>>)
         \o PostsIn(Tail(md))

\* the posts of the input, subreddit after subreddit
RECURSIVE PostsFrom(_)
PostsFrom(k) ==
    IF k > Len(mdInput) THEN <<>>
    ELSE [i \in 1 .. Len(mdInput[k].posts) |-> <<k, mdInput[k].posts[i].id>>]
         \o PostsFrom(k + 1)

\* C40 (as stated): when exportGroupToMarkdown has returned, every post of
\* every subreddit of its input is in exactly one of the files written, and
\* the posts of the files taken in order are the posts of the input in
\* their order.
C40_EveryPostInOnePart ==
    mdpc = "done" =>
        PostsIn(Flatten(mdFiles)) = PostsFrom(1)

----------------------------------------------------------------------------
(* Properties of the mapper of omega-red.mjs *)

\* C38 (as stated): in omega-red.mjs, the result that the scheduler holds
\* for an item whose reply fetch returned n replies holds those n replies;
\* here with an export format other than CSV, where the mapper writes
\* nothing after the fetch and so only the estimate-refining step lies
\* between the fetch and the result.
C38_FetchedRepliesInResult ==
    ~exportCsv =>
        \A i \in 1 .. Len(stage) :
            stage[i] \in {"returned", "caught"} =>
                results[i].comments = fetchedOf[i]

====
